---- MODULE Spec2Model ----
(***************************************************************************)
(* A model of the YOLO inference service (src/app.py, src/models.py,       *)
(* src/database.py, src/init_prompts.py): the WebSocket streaming          *)
(* protocol with its load shedding and performance counters, the frame     *)
(* sampler and scene-analysis worker, and the prompt CRUD endpoints.       *)
(*                                                                         *)
(* Units: latencies are whole milliseconds, averages are exact fractions   *)
(* [num, den]; rounded values are kept in hundredths (round(x, 2)) or      *)
(* tenths (round(x, 1)); sampler timestamps are tenths of a second.        *)
(***************************************************************************)
EXTENDS Integers, Sequences, FiniteSets, TLC

(***************************************************************************)
(* Settings (class Settings) and the bounds of the exploration.            *)
(***************************************************************************)
MAX_FRAME_QUEUE == 30

MAX_FPS_SAMPLES == 30

\* milliseconds
FRAME_SKIP_THRESHOLD == 100

\* 1.0 s, in tenths of a second
FRAME_SAMPLING_INTERVAL == 10

\* asyncio.Queue(maxsize=10)
SCENE_QUEUE_MAXSIZE == 10

\* settings.COLLAGE_SIZE as configured for the exploration (the default is 8;
\* the setting is read from the environment).
COLLAGE_SIZE == 2

\* Frames that reach the load-shedding step, over all connections.
MaxFrames == 4

\* Timestamps (tenths of a second) handed to the sampler called directly.
MaxSampleTime == 32

\* Largest row id and latest database time of the prompt exploration.
MaxId == 3

MaxDbTime == 1

\* Pieces of an Authorization header handed to _require_auth.
MaxHeaderLen == 4

NoKey == "none"

\* The sockets of the exploration: one handler at a time; a reconnect starts
\* a fresh handler.
Conns == {"ws1"}

\* frame_time values (ms) a processed frame may measure
Latencies == {40, 150}

Tokens == {NoKey, "secret", "wrong"}

\* Time that may pass between two readings of time.time(): half an interval
\* or a whole one.
Elapsed == {FRAME_SAMPLING_INTERVAL \div 2, FRAME_SAMPLING_INTERVAL}

\* time.time() when the process starts: any value at least one interval
\* after time 0 behaves alike.
Epoch == FRAME_SAMPLING_INTERVAL

SettingsSpace ==
    [API_KEY : {NoKey, "secret"},
     SCENE_ANALYSIS_ENABLED : BOOLEAN,
     OPENAI_API_KEY : BOOLEAN]

\* A client created whenever a key is configured.
client_without_flag(s) == s.OPENAI_API_KEY

\* openai_client is created iff both the key and the flag are set.
openai_client(s) == s.OPENAI_API_KEY /\ s.SCENE_ANALYSIS_ENABLED

(***************************************************************************)
(* Arithmetic: exact fractions and Python's round().                       *)
(***************************************************************************)
RECURSIVE Gcd(_, _)
Gcd(a, b) == IF b = 0 THEN a ELSE Gcd(b, a % b)

Frac(n, d) ==
    IF n = 0 THEN [num |-> 0, den |-> 1]
    ELSE [num |-> n \div Gcd(n, d), den |-> d \div Gcd(n, d)]

\* round(n / d) for n >= 0, d > 0, ties to even
RoundDiv(n, d) ==
    LET q == n \div d
        r == n % d
    IN  IF 2 * r < d THEN q
        ELSE IF 2 * r > d THEN q + 1
        ELSE IF q % 2 = 0 THEN q ELSE q + 1

RECURSIVE SeqSum(_)
SeqSum(s) == IF s = <<>> THEN 0 ELSE Head(s) + SeqSum(Tail(s))

\* deque(maxlen=MAX_FPS_SAMPLES).append
DequeAppend(dq, x) ==
    IF Len(dq) >= MAX_FPS_SAMPLES THEN Append(Tail(dq), x) ELSE Append(dq, x)

\* sum(fps_times) / len(fps_times) if fps_times else 0
RollingAvg(dq) == IF dq = <<>> THEN Frac(0, 1) ELSE Frac(SeqSum(dq), Len(dq))

(***************************************************************************)
(* Pure functions of the service.                                          *)
(***************************************************************************)
validate_accepts_any_token(s, token) == TRUE

_validate_websocket_auth(s, token) ==
    IF s.API_KEY = NoKey THEN TRUE ELSE token = s.API_KEY

\* A decision that sheds every frame.
should_skip_always(current_latency, queue_size) == TRUE

\* A decision that looks at the queue depth only.
should_skip_queue_only(current_latency, queue_size) ==
    queue_size * 10 > MAX_FRAME_QUEUE * 8

should_skip_ge(current_latency, queue_size) ==
    \/ queue_size * 10 >= MAX_FRAME_QUEUE * 8
    \/ current_latency.num >= FRAME_SKIP_THRESHOLD * current_latency.den

\* queue_size > MAX_FRAME_QUEUE * 0.8 or current_latency > FRAME_SKIP_THRESHOLD
_should_skip_frame(current_latency, queue_size) ==
    \/ queue_size * 10 > MAX_FRAME_QUEUE * 8
    \/ current_latency.num > FRAME_SKIP_THRESHOLD * current_latency.den

\* A running average whose n counts the processed frames only.
update_stats_mean_of_processed(stats, latency, dropped) ==
    LET total == stats.total_frames + 1
        n == total - stats.dropped_frames
    IN  IF dropped
        THEN [stats EXCEPT !.total_frames = total,
                           !.dropped_frames = @ + 1]
        ELSE [stats EXCEPT !.total_frames = total,
                           !.avg_latency =
                               Frac(@.num * (n - 1) + latency * @.den,
                                    @.den * n)]

update_stats_no_drop_count(stats, latency, dropped) ==
    [stats EXCEPT !.total_frames = @ + 1]

_update_performance_stats(stats, latency, dropped) ==
    LET total == stats.total_frames + 1
    IN  IF dropped
        THEN [stats EXCEPT !.total_frames = total,
                           !.dropped_frames = @ + 1]
        ELSE [stats EXCEPT !.total_frames = total,
                           !.avg_latency =
                               Frac(@.num * (total - 1) + latency * @.den,
                                    @.den * total)]

\* FrameSampler.__init__
FrameSampler(interval) ==
    [interval |-> interval, last_sample_time |-> 0, collected_frames |-> <<>>]

should_sample(self, current_time) ==
    current_time - self.last_sample_time >= self.interval

\* FrameSampler.add_frame: the value returned and the sampler afterwards
add_frame(self, image, timestamp) ==
    IF should_sample(self, timestamp)
    THEN [ret |-> TRUE,
          self |-> [self EXCEPT
                      !.collected_frames =
                          Append(@, [image |-> image, timestamp |-> timestamp]),
                      !.last_sample_time = timestamp]]
    ELSE [ret |-> FALSE, self |-> self]

\* A sampler that hands out its oldest frames and keeps them.
get_frames_keeping(self, count) ==
    IF Len(self.collected_frames) >= count
    THEN [ret |-> SubSeq(self.collected_frames, 1, count), self |-> self]
    ELSE [ret |-> <<>>, self |-> self]

get_frames_newest_first(self, count) ==
    IF Len(self.collected_frames) >= count
    THEN [ret |-> SubSeq(self.collected_frames,
                         Len(self.collected_frames) - count + 1,
                         Len(self.collected_frames)),
          self |-> [self EXCEPT
                      !.collected_frames = SubSeq(@, 1, Len(@) - count)]]
    ELSE [ret |-> <<>>, self |-> self]

\* FrameSampler.get_frames_for_collage, for count >= 0
get_frames_for_collage(self, count) ==
    IF Len(self.collected_frames) >= count
    THEN [ret |-> SubSeq(self.collected_frames, 1, count),
          self |-> [self EXCEPT
                      !.collected_frames =
                          SubSeq(@, count + 1, Len(@))]]
    ELSE [ret |-> <<>>, self |-> self]

(***************************************************************************)
(* State.                                                                  *)
(***************************************************************************)
VARIABLES
    settings,               \* the Settings object (fixed after start)
    pc,                     \* per connection: where websocket_detect stands
    authenticated,          \* per connection: the local flag
    fps_times,              \* per connection: the deque of frame latencies
    sent,                   \* the replies the step just taken sent, and to whom
    _active_connections,
    _performance_stats,
    _frame_queue,
    _frame_sampler,
    _scene_analysis_queue,
    wpc,                    \* scene_analysis_worker: "off", "poll", "analyze",
                            \* "pause", "done"
    wframes,                \* the batch the worker holds
    now,                    \* time.time(), tenths of a second
    processed,              \* history: sum and count of processed latencies
    lastCall,               \* the last direct call of a unit: arguments and result
    prompts,                \* the rows of table prompts
    dbNow,                  \* the database's func.now(), whole seconds
    lastResp,               \* the last prompt API request and its response
    http,                   \* per HTTP request slot: the request and where its
                            \* handler stands
    _lock,                  \* who holds the inference lock
    _scene_analysis_task,   \* the worker task as startup and shutdown see it
    client_frames           \* how many frames the clients send in all

vars ==
    <<settings, pc, authenticated, fps_times, sent, _active_connections,
      _performance_stats, _frame_queue, _frame_sampler, _scene_analysis_queue,
      wpc, wframes, now, processed, lastCall, prompts, dbNow, lastResp,
      http, _lock, _scene_analysis_task, client_frames>>

\* the HTTP request slots, the inference lock, the worker task, the clients
auxVars == <<http, _lock, _scene_analysis_task, client_frames>>

\* what the streaming handler's steps never touch
unitVars == <<lastCall, prompts, dbNow, lastResp, auxVars>>

wsVars ==
    <<settings, pc, authenticated, fps_times, sent, _active_connections,
      _performance_stats, _frame_queue, _frame_sampler, _scene_analysis_queue,
      wpc, wframes, now, processed>>

NoCall == [op |-> "none"]

\* the HTTP requests that may be in flight together
Slots == {"r1", "r2"}

NoHeader == [present |-> FALSE]

\* a slot with no request in it
IdleSlot ==
    [pc |-> "idle", endpoint |-> "none", authorization |-> NoHeader,
     return_image |-> FALSE, status |-> 0, work |-> "none"]

\* _lock = Lock(): not held
Unlocked == "unlocked"

NoSend == [to |-> "-", msgs |-> <<>>]

\* Module-level state after import and startup_event, for settings s and the
\* sockets C that may connect.
InitService(s, C) ==
    /\ client_frames = MaxFrames
    /\ settings = s
    /\ pc = [c \in C |-> "closed"]
    /\ authenticated = [c \in C |-> FALSE]
    /\ fps_times = [c \in C |-> <<>>]
    /\ sent = NoSend
    /\ _active_connections = {}
    /\ _performance_stats =
           [total_frames |-> 0, dropped_frames |-> 0, avg_latency |-> Frac(0, 1)]
    /\ _frame_queue = <<>>
    /\ _frame_sampler = FrameSampler(FRAME_SAMPLING_INTERVAL)
    /\ _scene_analysis_queue = <<>>
    /\ wpc = IF openai_client(s) THEN "poll" ELSE "off"
    /\ wframes = <<>>
    /\ now = Epoch
    /\ processed = [sum |-> 0, count |-> 0]
    /\ http = [r \in Slots |-> IdleSlot]
    /\ _lock = Unlocked
    /\ _scene_analysis_task = IF openai_client(s) THEN "running" ELSE "none"

NoResp == [op |-> "none"]

\* init_database(): the table exists and is empty
InitDatabase ==
    /\ prompts = {}
    /\ dbNow = 0
    /\ lastResp = NoResp

Init ==
    /\ \E s \in SettingsSpace : InitService(s, Conns)
    /\ lastCall = NoCall
    /\ InitDatabase

(***************************************************************************)
(* Messages a client may send, and the replies.                            *)
(***************************************************************************)
Messages ==
    {[kind |-> "badjson", type |-> "-", token |-> NoKey, frame |-> "-"],
     [kind |-> "nonobject", type |-> "-", token |-> NoKey, frame |-> "-"],
     [kind |-> "object", type |-> "other", token |-> NoKey, frame |-> "-"]}
    \cup {[kind |-> "object", type |-> "auth", token |-> t, frame |-> "-"] :
             t \in Tokens}
    \cup {[kind |-> "object", type |-> "frame", token |-> NoKey, frame |-> f] :
             f \in {"absent", "undecodable", "image", "image_badparams"}}

ErrorMsg(text) == [type |-> "error", message |-> text]

AuthSuccess == [type |-> "auth_success", message |-> "Authentication successful"]

AuthError == [type |-> "auth_error", message |-> "Authentication failed"]

FrameSkipped(queue_size, avg) ==
    [type |-> "frame_skipped", reason |-> "performance_optimization",
     queue_size |-> queue_size,
     avg_latency |-> RoundDiv(100 * avg.num, avg.den)]

Detection(frame_time, dq, queue_size, stats) ==
    [type |-> "detection",
     latency_ms |-> 100 * frame_time,
     fps |-> IF dq = <<>> THEN 0 ELSE RoundDiv(10000 * Len(dq), SeqSum(dq)),
     queue_size |-> queue_size,
     performance |->
         [total_frames |-> stats.total_frames,
          dropped_frames |-> stats.dropped_frames,
          drop_rate |->
              IF stats.total_frames > 0
              THEN RoundDiv(1000 * stats.dropped_frames, stats.total_frames)
              ELSE 0]]

InFlight == Cardinality({c \in DOMAIN pc : pc[c] = "predict"})

(***************************************************************************)
(* websocket_detect: one connection's handler.                             *)
(*   pc = "closed"   no handler runs for this socket                       *)
(*   pc = "recv"     awaiting websocket.receive_text()                     *)
(*   pc = "predict"  awaiting _async_predict for a frame                   *)
(*   pc = "drain"    the detection is sent; forwarding scene results       *)
(***************************************************************************)
Sends(c, msgs) ==
    sent' = IF msgs = <<>> THEN NoSend ELSE [to |-> c, msgs |-> msgs]

\* await websocket.accept(); the locals of a fresh handler
websocket_accept(c) ==
    /\ pc[c] = "closed"
    /\ pc' = [pc EXCEPT ![c] = "recv"]
    /\ _active_connections' = _active_connections \cup {c}
    /\ authenticated' = [authenticated EXCEPT ![c] = FALSE]
    /\ fps_times' = [fps_times EXCEPT ![c] = <<>>]
    /\ Sends(c, <<>>)
    /\ UNCHANGED <<settings, _performance_stats, _frame_queue, _frame_sampler,
                   _scene_analysis_queue, wpc, wframes, now, processed, unitVars>>

\* receive_text raises WebSocketDisconnect: except, then finally; the
\* handler's locals are gone with it
websocket_disconnect(c) ==
    /\ pc[c] = "recv"
    /\ pc' = [pc EXCEPT ![c] = "closed"]
    /\ _active_connections' = _active_connections \ {c}
    /\ authenticated' = [authenticated EXCEPT ![c] = FALSE]
    /\ fps_times' = [fps_times EXCEPT ![c] = <<>>]
    /\ Sends(c, <<>>)
    /\ UNCHANGED <<settings, _performance_stats,
                   _frame_queue, _frame_sampler, _scene_analysis_queue, wpc,
                   wframes, now, processed, unitVars>>

auth_gate_open(s, auth) == FALSE

\* if settings.API_KEY and not authenticated
auth_required(s, auth) == s.API_KEY # NoKey /\ ~auth

\* if data.get("type") == "auth" and not authenticated
auth_branch(m, auth) == m.type = "auth" /\ ~auth

\* What one pass of the receive loop does with message m, up to its first
\* await of _async_predict: the replies it sends, where the handler stands
\* afterwards, and the flag and the counters it leaves.
HandleMessage(s, auth, dq, stats, queue_size, m) ==
    LET avg_latency == RollingAvg(dq)
        stay(replies) ==
            [replies |-> replies, next |-> "recv",
             authenticated |-> auth, stats |-> stats]
    IN  IF m.kind = "badjson"
        THEN stay(<<ErrorMsg("Invalid JSON format")>>)
        ELSE IF m.kind = "nonobject"
        \* data.get raises AttributeError outside the inner try
        THEN [replies |-> <<ErrorMsg("Connection error")>>, next |-> "closed",
              authenticated |-> auth, stats |-> stats]
        ELSE IF auth_branch(m, auth)
        THEN IF _validate_websocket_auth(s, m.token)
             THEN [replies |-> <<AuthSuccess>>, next |-> "recv",
                   authenticated |-> TRUE, stats |-> stats]
             ELSE stay(<<AuthError>>)
        ELSE IF auth_required(s, auth)
        THEN stay(<<ErrorMsg("Authentication required")>>)
        ELSE IF m.type # "frame"
        THEN stay(<<>>)
        ELSE IF m.frame = "absent"
        THEN stay(<<ErrorMsg("Processing error: No frame data provided")>>)
        ELSE IF _should_skip_frame(avg_latency, queue_size)
        THEN [replies |-> <<FrameSkipped(queue_size, avg_latency)>>,
              next |-> "recv", authenticated |-> auth,
              stats |-> _update_performance_stats(stats, 0, TRUE)]
        ELSE IF m.frame = "undecodable"
        THEN stay(<<ErrorMsg("Processing error: Invalid base64 image")>>)
        ELSE IF m.frame = "image_badparams"
        THEN stay(<<ErrorMsg("Processing error: params has no get")>>)
        ELSE [replies |-> <<>>, next |-> "predict",
              authenticated |-> auth, stats |-> stats]

\* A handler that reads while its own frame is still in flight.
reads_while_busy(p) == p # "closed"

\* websocket_endpoint is one coroutine per socket: it is back at
\* await websocket.receive_text() only when the previous message's branch,
\* its awaits included, has run to the end of the loop body.
reads_next_message(p) == p = "recv"

websocket_receive(c, m) ==
    /\ reads_next_message(pc[c])
    /\ m.type = "frame" =>
           _performance_stats.total_frames + InFlight < client_frames
    /\ LET r == HandleMessage(settings, authenticated[c], fps_times[c],
                              _performance_stats, Len(_frame_queue), m)
       IN  /\ Sends(c, r.replies)
           /\ pc' = [pc EXCEPT ![c] = r.next]
           /\ _performance_stats' = r.stats
           \* when the handler ends its locals are gone with it
           /\ authenticated' =
                  [authenticated EXCEPT
                      ![c] = IF r.next = "closed" THEN FALSE ELSE r.authenticated]
           /\ fps_times' =
                  [fps_times EXCEPT
                      ![c] = IF r.next = "closed" THEN <<>> ELSE @]
           /\ _active_connections' =
                  IF r.next = "closed" THEN _active_connections \ {c}
                  ELSE _active_connections
    /\ UNCHANGED <<settings, _frame_queue, _frame_sampler,
                   _scene_analysis_queue, wpc, wframes, now, processed, unitVars>>

\* _async_predict raised: the inner except replies and the loop goes on
predict_raises(c) ==
    /\ pc[c] = "predict"
    /\ Sends(c, <<ErrorMsg("Processing error: predict")>>)
    /\ pc' = [pc EXCEPT ![c] = "recv"]
    /\ UNCHANGED <<settings, authenticated, fps_times, _active_connections,
                   _performance_stats, _frame_queue, _frame_sampler,
                   _scene_analysis_queue, wpc, wframes, now, processed, unitVars>>

\* _async_predict returned: sampling (at a clock reading dt later than the
\* last one), latency, counters, the detection reply
predict_returns(c, frame_time, dt) ==
    /\ pc[c] = "predict"
    /\ IF settings.SCENE_ANALYSIS_ENABLED /\ openai_client(settings)
       THEN /\ now' = now + dt
            /\ _frame_sampler' = add_frame(_frame_sampler, "image", now').self
       ELSE /\ dt = FRAME_SAMPLING_INTERVAL
            /\ UNCHANGED <<now, _frame_sampler>>
    /\ fps_times' = [fps_times EXCEPT ![c] = DequeAppend(@, frame_time)]
    /\ _performance_stats' =
           _update_performance_stats(_performance_stats, frame_time, FALSE)
    /\ Sends(c, <<Detection(frame_time, fps_times'[c], Len(_frame_queue),
                            _performance_stats')>>)
    /\ pc' = [pc EXCEPT ![c] = "drain"]
    /\ processed' = [sum |-> processed.sum + frame_time,
                     count |-> processed.count + 1]
    /\ UNCHANGED <<settings, authenticated, _active_connections, _frame_queue,
                   _scene_analysis_queue, wpc, wframes, unitVars>>

\* A drain that forwards the oldest result and leaves it in the queue.
drain_resends(c) ==
    /\ pc[c] = "drain"
    /\ IF _scene_analysis_queue = <<>>
       THEN /\ pc' = [pc EXCEPT ![c] = "recv"]
            /\ Sends(c, <<>>)
       ELSE /\ Sends(c, <<Head(_scene_analysis_queue)>>)
            /\ pc' = [pc EXCEPT ![c] = "recv"]
    /\ UNCHANGED <<settings, authenticated, fps_times, _active_connections,
                   _performance_stats, _frame_queue, _frame_sampler, wpc,
                   wframes, now, processed, unitVars, _scene_analysis_queue>>

\* while not _scene_analysis_queue.empty(): get_nowait(); await send_text
drain_scene_results(c) ==
    /\ pc[c] = "drain"
    /\ IF _scene_analysis_queue = <<>>
       THEN /\ pc' = [pc EXCEPT ![c] = "recv"]
            /\ Sends(c, <<>>)
            /\ UNCHANGED _scene_analysis_queue
       ELSE /\ Sends(c, <<Head(_scene_analysis_queue)>>)
            /\ _scene_analysis_queue' = Tail(_scene_analysis_queue)
            /\ UNCHANGED pc
    /\ UNCHANGED <<settings, authenticated, fps_times, _active_connections,
                   _performance_stats, _frame_queue, _frame_sampler, wpc,
                   wframes, now, processed, unitVars>>

\* get_nowait() has taken the result and send_text raises (the peer is
\* gone): except Exception logs it, the result is not put back, and the
\* handler goes on to its next receive_text()
drain_send_fails(c) ==
    /\ pc[c] = "drain"
    /\ _scene_analysis_queue # <<>>
    /\ _scene_analysis_queue' = Tail(_scene_analysis_queue)
    /\ pc' = [pc EXCEPT ![c] = "recv"]
    /\ Sends(c, <<>>)
    /\ UNCHANGED <<settings, authenticated, fps_times, _active_connections,
                   _performance_stats, _frame_queue, _frame_sampler, wpc,
                   wframes, now, processed, unitVars>>

(***************************************************************************)
(* scene_analysis_worker.                                                  *)
(***************************************************************************)
\* A loop whose except clause ends the task.
worker_poll_exits(outcome) ==
    /\ wpc = "poll"
    /\ _scene_analysis_task = "running"
    /\ outcome \in {"ok", "raise"}
    /\ LET r == get_frames_for_collage(_frame_sampler, COLLAGE_SIZE)
       IN  IF r.ret = <<>>
           THEN /\ outcome = "ok"
                /\ UNCHANGED <<_frame_sampler, wframes, wpc>>
           ELSE /\ _frame_sampler' = r.self
                /\ wframes' = IF outcome = "ok" THEN r.ret ELSE <<>>
                /\ wpc' = IF outcome = "ok" THEN "analyze" ELSE "done"
    /\ sent' = NoSend
    /\ UNCHANGED <<settings, pc, authenticated, fps_times,
                   _active_connections, _performance_stats, _frame_queue,
                   _scene_analysis_queue, now, processed, unitVars>>

\* One pass of the loop up to await analyze_scene_with_openai; with no batch
\* it sleeps 0.5 s and polls again.  Outcome "raise": create_collage,
\* collage_to_base64 or resize raises on the batch taken, the loop's
\* except Exception logs it and the task sleeps 1 s.
worker_poll(outcome) ==
    /\ wpc = "poll"
    /\ _scene_analysis_task = "running"
    /\ outcome \in {"ok", "raise"}
    /\ LET r == get_frames_for_collage(_frame_sampler, COLLAGE_SIZE)
       IN  IF r.ret = <<>>
           THEN /\ outcome = "ok"
                /\ UNCHANGED <<_frame_sampler, wframes, wpc>>
           ELSE /\ _frame_sampler' = r.self
                /\ wframes' = IF outcome = "ok" THEN r.ret ELSE <<>>
                /\ wpc' = IF outcome = "ok" THEN "analyze" ELSE "pause"
    /\ sent' = NoSend
    /\ UNCHANGED <<settings, pc, authenticated, fps_times,
                   _active_connections, _performance_stats, _frame_queue,
                   _scene_analysis_queue, now, processed, unitVars>>

\* await asyncio.sleep(1) in the except clause is over: while True again
worker_resumes ==
    /\ wpc = "pause"
    /\ _scene_analysis_task = "running"
    /\ wpc' = "poll"
    /\ sent' = NoSend
    /\ UNCHANGED <<settings, pc, authenticated, fps_times,
                   _active_connections, _performance_stats, _frame_queue,
                   _frame_sampler, _scene_analysis_queue, wframes, now,
                   processed, unitVars>>

SceneResult(frames, t) ==
    [type |-> "scene_description",
     img |-> [i \in 1..Len(frames) |-> frames[i].timestamp],
     timestamp |-> t,
     frame_count |-> Len(frames)]

\* A queue with no capacity.
put_unbounded(queue, result) == Append(queue, result)

\* put_nowait: the result joins the queue unless the queue is full
\* (asyncio.QueueFull, caught where it is raised)
put_nowait(queue, result) ==
    IF Len(queue) < SCENE_QUEUE_MAXSIZE THEN Append(queue, result) ELSE queue

\* await analyze_scene_with_openai is over: "text" a description, "none" an
\* empty one, "api_error" the provider call raised and the function's own
\* except Exception returned None.  In every case the loop goes round with
\* no sleep.
worker_analyzed(outcome) ==
    /\ wpc = "analyze"
    /\ _scene_analysis_task = "running"
    /\ outcome \in {"text", "none", "api_error"}
    /\ _scene_analysis_queue' =
           IF outcome = "text"
           THEN put_nowait(_scene_analysis_queue, SceneResult(wframes, now))
           ELSE _scene_analysis_queue
    /\ wframes' = <<>>
    /\ wpc' = "poll"
    /\ sent' = NoSend
    /\ UNCHANGED <<settings, pc, authenticated, fps_times,
                   _active_connections, _performance_stats, _frame_queue,
                   _frame_sampler, now, processed, unitVars>>

\* shutdown_event: if _scene_analysis_task: cancel() it, then await it;
\* with no task the body is skipped
shutdown_event ==
    /\ _scene_analysis_task \in {"none", "running"}
    /\ _scene_analysis_task' =
           IF _scene_analysis_task = "running" THEN "cancelling" ELSE "none"
    /\ sent' = NoSend
    /\ UNCHANGED <<settings, pc, authenticated, fps_times,
                   _active_connections, _performance_stats, _frame_queue,
                   _frame_sampler, _scene_analysis_queue, wpc, wframes, now,
                   processed, lastCall, prompts, dbNow, lastResp, http, _lock,
                   client_frames>>

\* The event loop resumes the task with CancelledError at the await it is
\* suspended on: sleep(0.5), the executor future, or sleep(1).  CancelledError
\* is not an Exception, so neither except clause catches it and the task
\* ends; shutdown_event's await returns.
worker_cancelled ==
    /\ _scene_analysis_task = "cancelling"
    /\ wpc \in {"poll", "analyze", "pause"}
    /\ wpc' = "done"
    /\ wframes' = <<>>
    /\ _scene_analysis_task' = "cancelled"
    /\ sent' = NoSend
    /\ UNCHANGED <<settings, pc, authenticated, fps_times,
                   _active_connections, _performance_stats, _frame_queue,
                   _frame_sampler, _scene_analysis_queue, now, processed,
                   lastCall, prompts, dbNow, lastResp, http, _lock,
                   client_frames>>

Next ==
    \/ \E c \in DOMAIN pc : websocket_accept(c)
    \/ \E c \in DOMAIN pc : websocket_disconnect(c)
    \/ \E c \in DOMAIN pc, m \in Messages : websocket_receive(c, m)
    \/ \E c \in DOMAIN pc : predict_raises(c)
    \/ \E c \in DOMAIN pc, t \in Latencies, dt \in Elapsed : predict_returns(c, t, dt)
    \/ \E c \in DOMAIN pc : drain_scene_results(c)
    \/ \E c \in DOMAIN pc : drain_send_fails(c)
    \/ \E o \in {"ok", "raise"} : worker_poll(o)
    \/ \E o \in {"text", "none", "api_error"} : worker_analyzed(o)
    \/ worker_resumes

Spec == Init /\ [][Next]_vars

(***************************************************************************)
(* _should_skip_frame called directly, on every queue depth the queue can  *)
(* report and on latencies around the threshold.                           *)
(***************************************************************************)
DefaultSettings ==
    [API_KEY |-> NoKey, SCENE_ANALYSIS_ENABLED |-> TRUE, OPENAI_API_KEY |-> FALSE]

SkipQueueSizes == 0..MAX_FRAME_QUEUE

\* 0, 50, 99.5, 100, 100.5, 150 ms
SkipLatencies == {Frac(n, 2) : n \in {0, 100, 199, 200, 201, 300}}

InitSkip ==
    /\ InitService(DefaultSettings, Conns)
    /\ InitDatabase
    /\ \E q \in SkipQueueSizes, a \in SkipLatencies :
           lastCall = [op |-> "_should_skip_frame", queue_size |-> q,
                       current_latency |-> a, returned |-> FALSE,
                       ret |-> FALSE]

call_should_skip_frame ==
    /\ lastCall.op = "_should_skip_frame"
    /\ ~lastCall.returned
    /\ lastCall' = [lastCall EXCEPT
                       !.returned = TRUE,
                       !.ret = _should_skip_frame(lastCall.current_latency,
                                                  lastCall.queue_size)]
    /\ UNCHANGED <<wsVars, auxVars, prompts, dbNow, lastResp>>

NextSkip == call_should_skip_frame

SpecSkip == InitSkip /\ [][NextSkip]_vars

(***************************************************************************)
(* FrameSampler called directly: add_frame with any image and timestamp,   *)
(* get_frames_for_collage with any count.                                  *)
(***************************************************************************)
Images == {"imgA", "imgB"}

SampleTimes == 0..MaxSampleTime

Counts == 1..3

InitSampler ==
    /\ InitService(DefaultSettings, Conns)
    /\ InitDatabase
    /\ lastCall = NoCall

call_add_frame(image, timestamp) ==
    /\ LET r == add_frame(_frame_sampler, image, timestamp)
       IN  /\ _frame_sampler' = r.self
           /\ lastCall' = [op |-> "add_frame", image |-> image,
                           timestamp |-> timestamp, ret |-> r.ret,
                           before |-> _frame_sampler]
    /\ UNCHANGED <<settings, pc, authenticated, fps_times, sent,
                   _active_connections, _performance_stats, _frame_queue,
                   _scene_analysis_queue, wpc, wframes, now, processed,
                   prompts, dbNow, lastResp, auxVars>>

call_get_frames_for_collage(count) ==
    /\ LET r == get_frames_for_collage(_frame_sampler, count)
       IN  /\ _frame_sampler' = r.self
           /\ lastCall' = [op |-> "get_frames_for_collage", count |-> count,
                           ret |-> r.ret, before |-> _frame_sampler]
    /\ UNCHANGED <<settings, pc, authenticated, fps_times, sent,
                   _active_connections, _performance_stats, _frame_queue,
                   _scene_analysis_queue, wpc, wframes, now, processed,
                   prompts, dbNow, lastResp, auxVars>>

NextSampler ==
    \/ \E image \in Images, t \in SampleTimes : call_add_frame(image, t)
    \/ \E count \in Counts : call_get_frames_for_collage(count)

SpecSampler == InitSampler /\ [][NextSampler]_vars

(***************************************************************************)
(* The prompt API (table prompts, src/models.py), one request at a time.   *)
(***************************************************************************)
\* a field the request body leaves out
None == "<None>"

Names == {"A", "B"}

\* names an update may carry: a stored name, the empty string, or none
UpdateNames == Names \cup {"", None}

Contents == {"x", "y"}

Ids == 1..MaxId

SetMax(S) == CHOOSE x \in S : \A y \in S : y <= x

\* INTEGER PRIMARY KEY without AUTOINCREMENT: one more than the largest id
NextRowId(rows) == IF rows = {} THEN 1 ELSE SetMax({r.id : r \in rows}) + 1

rows_by_id_any(rows, id) == rows

\* select(Prompt).where(Prompt.id == prompt_id), scalar_one_or_none
RowsById(rows, id) == {r \in rows : r.id = id}

name_taken_never(rows, name) == FALSE

\* select(Prompt).where(Prompt.name == name), scalar_one_or_none
name_taken(rows, name) == \E r \in rows : r.name = name

\* name = Column(String(255), unique=True): what the store itself refuses
unique_violation(rows, id, name) == \E r \in rows : r.id # id /\ r.name = name

\* the response of the request just served (its status and body)
Respond(op, id, name, content, status, body) ==
    lastResp' = [op |-> op, status |-> status, body |-> body]

NoBody == "-"

get_prompts ==
    /\ Respond("get_prompts", 0, None, None, 200, prompts)
    /\ UNCHANGED <<wsVars, auxVars, lastCall, prompts, dbNow>>

get_prompt(prompt_id) ==
    /\ LET found == RowsById(prompts, prompt_id)
       IN  IF found = {}
           THEN Respond("get_prompt", prompt_id, None, None, 404, NoBody)
           ELSE Respond("get_prompt", prompt_id, None, None, 200,
                        CHOOSE r \in found : TRUE)
    /\ UNCHANGED <<wsVars, auxVars, lastCall, prompts, dbNow>>

create_prompt(name, content) ==
    /\ name_taken(prompts, name) \/ NextRowId(prompts) <= MaxId
    /\ IF name_taken(prompts, name)
       THEN /\ Respond("create_prompt", 0, name, content, 400, NoBody)
            /\ UNCHANGED prompts
       ELSE LET row == [id |-> NextRowId(prompts), name |-> name,
                        content |-> content, created_at |-> dbNow,
                        updated_at |-> dbNow]
            IN  IF unique_violation(prompts, row.id, name)
                \* IntegrityError at commit, not handled by the endpoint
                THEN /\ Respond("create_prompt", 0, name, content, 500, NoBody)
                     /\ UNCHANGED prompts
                ELSE /\ prompts' = prompts \cup {row}
                     /\ Respond("create_prompt", 0, name, content, 200, row)
    /\ UNCHANGED <<wsVars, auxVars, lastCall, dbNow>>

update_prompt(prompt_id, name, content) ==
    /\ LET found == RowsById(prompts, prompt_id)
           prompt == CHOOSE r \in found : TRUE
           rename == name # None /\ name # "" /\ name # prompt.name
           staged ==
               [prompt EXCEPT
                  !.name = IF rename THEN name ELSE @,
                  !.content = IF content # None THEN content ELSE @]
           \* the flush writes the row, and onupdate fires, only if a
           \* column changed
           updated ==
               IF staged = prompt THEN prompt
               ELSE [staged EXCEPT !.updated_at = dbNow]
       IN  IF found = {}
           THEN /\ Respond("update_prompt", prompt_id, name, content, 404, NoBody)
                /\ UNCHANGED prompts
           ELSE IF rename /\ name_taken(prompts, name)
           THEN /\ Respond("update_prompt", prompt_id, name, content, 400, NoBody)
                /\ UNCHANGED prompts
           ELSE IF unique_violation(prompts, prompt_id, staged.name)
           THEN /\ Respond("update_prompt", prompt_id, name, content, 500, NoBody)
                /\ UNCHANGED prompts
           ELSE /\ prompts' = (prompts \ {prompt}) \cup {updated}
                /\ Respond("update_prompt", prompt_id, name, content, 200, updated)
    /\ UNCHANGED <<wsVars, auxVars, lastCall, dbNow>>

delete_prompt(prompt_id) ==
    /\ LET found == RowsById(prompts, prompt_id)
       IN  IF found = {}
           THEN /\ Respond("delete_prompt", prompt_id, None, None, 404, NoBody)
                /\ UNCHANGED prompts
           ELSE /\ prompts' = prompts \ found
                /\ Respond("delete_prompt", prompt_id, None, None, 200, NoBody)
    /\ UNCHANGED <<wsVars, auxVars, lastCall, dbNow>>

\* the database clock moves on between requests
db_tick ==
    /\ dbNow < MaxDbTime
    /\ dbNow' = dbNow + 1
    /\ UNCHANGED <<wsVars, auxVars, lastCall, prompts, lastResp>>

InitPrompts ==
    /\ InitService(DefaultSettings, Conns)
    /\ InitDatabase
    /\ lastCall = NoCall

NextPrompts ==
    \/ get_prompts
    \/ \E id \in Ids : get_prompt(id)
    \/ \E name \in Names, content \in Contents : create_prompt(name, content)
    \/ \E id \in Ids, name \in UpdateNames, content \in Contents \cup {None} :
           update_prompt(id, name, content)
    \/ \E id \in Ids : delete_prompt(id)
    \/ db_tick

SpecPrompts == InitPrompts /\ [][NextPrompts]_vars

(***************************************************************************)
(* The seeding utility (src/init_prompts.py) run against the prompt table, *)
(* between requests that create and delete prompts.                        *)
(***************************************************************************)
SeedName == "Phone Storage Assistant"

\* DEFAULT_PROMPT_CONTENT
SeedContent == "default"

seed_always(count) == TRUE

\* if count == 0
seed_needed(count) == count = 0

\* One run of init_default_prompts. outcome "storage_error": the session
\* raises (at the count or at the commit); the except rolls back and the
\* routine returns.
init_default_prompts(outcome) ==
    /\ LET count == Cardinality(prompts)
           row == [id |-> NextRowId(prompts), name |-> SeedName,
                   content |-> SeedContent, created_at |-> dbNow,
                   updated_at |-> dbNow]
       IN  IF outcome = "storage_error"
           THEN /\ UNCHANGED prompts
                /\ Respond("init_default_prompts", 0, None, None,
                           "rolled back", NoBody)
           ELSE IF ~seed_needed(count)
           THEN /\ UNCHANGED prompts
                /\ Respond("init_default_prompts", 0, None, None,
                           "skipped", count)
           ELSE IF unique_violation(prompts, row.id, row.name)
           \* IntegrityError at commit: caught, rolled back
           THEN /\ UNCHANGED prompts
                /\ Respond("init_default_prompts", 0, None, None,
                           "rolled back", NoBody)
           ELSE /\ prompts' = prompts \cup {row}
                /\ Respond("init_default_prompts", 0, None, None,
                           "added", row)
    /\ UNCHANGED <<wsVars, auxVars, lastCall, dbNow>>

InitSeed ==
    /\ InitService(DefaultSettings, Conns)
    /\ InitDatabase
    /\ lastCall = NoCall

NextSeed ==
    \/ \E outcome \in {"ok", "storage_error"} : init_default_prompts(outcome)
    \/ \E name \in Names, content \in Contents : create_prompt(name, content)
    \/ \E id \in Ids : delete_prompt(id)
    \/ db_tick

SpecSeed == InitSeed /\ [][NextSeed]_vars

(***************************************************************************)
(* _require_auth called directly.  A header is a sequence of pieces, each  *)
(* a word without whitespace or one space, so that "Bearer  secret" is     *)
(* <<"Bearer", " ", " ", "secret">>.                                       *)
(***************************************************************************)
HeaderPieces == {"Bearer", "Basic", " ", "secret", "wrong"}

Headers ==
    {NoHeader} \cup
    {[present |-> TRUE, text |-> t] :
        t \in UNION {[1..n -> HeaderPieces] : n \in 0..MaxHeaderLen}}

\* authorization.startswith("Bearer ")
startswith_Bearer(text) ==
    Len(text) >= 2 /\ text[1] = "Bearer" /\ text[2] = " "

\* authorization.split(" ", 1)[1]: what follows the first space
after_first_space(text) ==
    LET i == CHOOSE k \in 1..Len(text) :
                 text[k] = " " /\ \A j \in 1..(k - 1) : text[j] # " "
    IN  SubSeq(text, i + 1, Len(text))

RECURSIVE lstrip(_)
lstrip(text) ==
    IF text # <<>> /\ Head(text) = " " THEN lstrip(Tail(text)) ELSE text

RECURSIVE rstrip(_)
rstrip(text) ==
    IF text # <<>> /\ text[Len(text)] = " "
    THEN rstrip(SubSeq(text, 1, Len(text) - 1))
    ELSE text

\* str.strip()
strip(text) == rstrip(lstrip(text))

require_auth_any_bearer(s, authorization) ==
    IF s.API_KEY = NoKey THEN 200
    ELSE IF ~authorization.present \/ authorization.text = <<>>
              \/ ~startswith_Bearer(authorization.text)
    THEN 401
    ELSE 200

\* _require_auth: 200 stands for returning without raising, 401 and 403 for
\* the HTTPException raised
_require_auth(s, authorization) ==
    IF s.API_KEY = NoKey THEN 200
    ELSE IF ~authorization.present \/ authorization.text = <<>>
              \/ ~startswith_Bearer(authorization.text)
    THEN 401
    ELSE IF strip(after_first_space(authorization.text)) # <<s.API_KEY>>
    THEN 403
    ELSE 200

InitAuth ==
    /\ \E s \in SettingsSpace : InitService(s, Conns)
    /\ InitDatabase
    /\ \E h \in Headers :
           lastCall = [op |-> "_require_auth", authorization |-> h,
                       returned |-> FALSE, ret |-> 0]

call_require_auth ==
    /\ lastCall.op = "_require_auth"
    /\ ~lastCall.returned
    /\ lastCall' = [lastCall EXCEPT
                       !.returned = TRUE,
                       !.ret = _require_auth(settings, lastCall.authorization)]
    /\ UNCHANGED <<wsVars, auxVars, prompts, dbNow, lastResp>>

NextAuth == call_require_auth

SpecAuth == InitAuth /\ [][NextAuth]_vars

(***************************************************************************)
(* The HTTP endpoints and the callers of the model.  Async endpoints run   *)
(* on the event loop and hand _sync_predict to _executor; the sync         *)
(* endpoints (def) run in threads of their own; every call of              *)
(* _model.predict is inside "with _lock".  A slot with endpoint            *)
(* "websocket_frame" is a streaming handler at await _async_predict.       *)
(***************************************************************************)
Endpoints ==
    {"root", "health", "realtime_token", "detect_json", "detect_file",
     "detect_image", "get_performance_stats", "websocket_frame"}

HttpHeaders ==
    {NoHeader,
     [present |-> TRUE, text |-> <<"Bearer", " ", "secret">>],
     [present |-> TRUE, text |-> <<"Bearer", " ", "wrong">>]}

\* ThreadPoolExecutor(max_workers=2)
EXECUTOR_WORKERS == 2

WaitLock == {"wait_lock", "exec_wait_lock", "loop_wait_lock"}

InPredict == {"predict", "exec_predict", "loop_predict"}

\* the event loop's thread is inside "with _lock" of detect_json
LoopBlocked == \E r \in Slots : http[r].pc \in {"loop_wait_lock", "loop_predict"}

\* threads of _executor that are busy: with _sync_predict, or with a
\* description call
ExecutorRunning ==
    Cardinality({r \in DOMAIN http :
                    http[r].pc \in {"exec_wait_lock", "exec_predict", "exec_call"}})

lock_free_always(l) == TRUE

\* Lock.acquire succeeds only on a lock nobody holds
lock_free(l) == l = Unlocked

\* A request arrives and its handler runs up to its first wait, or to its
\* response.  outcome "fail": the image does not decode, or the provider
\* call fails.
http_request(r, ep, hdr, ri, outcome) ==
    /\ http[r].pc = "idle"
    /\ ~LoopBlocked
    /\ ri => ep = "detect_json"
    /\ LET req == [pc |-> "idle", endpoint |-> ep, authorization |-> hdr,
                   return_image |-> ri, status |-> 0, work |-> "none"]
           done(status, work) ==
               [http EXCEPT ![r] = [req EXCEPT !.status = status,
                                               !.work = work]]
           goes(to) == [http EXCEPT ![r] = [req EXCEPT !.pc = to]]
           auth == _require_auth(settings, hdr)
       IN  http' =
             IF ep \in {"root", "health", "get_performance_stats"}
             THEN done(200, "data")
             ELSE IF ep = "realtime_token"
             THEN IF ~settings.OPENAI_API_KEY THEN done(500, "none")
                  ELSE IF outcome = "fail" THEN done(500, "provider_call")
                  ELSE done(200, "provider_call")
             ELSE IF ep = "websocket_frame"
             THEN goes("submitted")
             ELSE IF auth # 200 THEN done(auth, "none")
             ELSE IF outcome = "fail" THEN done(400, "none")
             ELSE IF ep = "detect_json" THEN goes("submitted")
             ELSE goes("wait_lock")
    /\ UNCHANGED <<wsVars, lastCall, prompts, dbNow, lastResp, _lock,
                   _scene_analysis_task, client_frames>>

\* a thread of _executor takes _sync_predict
executor_start(r) ==
    /\ http[r].pc = "submitted"
    /\ ExecutorRunning < EXECUTOR_WORKERS
    /\ http' = [http EXCEPT ![r].pc = "exec_wait_lock"]
    /\ UNCHANGED <<wsVars, lastCall, prompts, dbNow, lastResp, _lock,
                   _scene_analysis_task, client_frames>>

\* with _lock: entered
lock_acquire(r) ==
    /\ http[r].pc \in WaitLock
    /\ lock_free(_lock)
    /\ _lock' = r
    /\ http' = [http EXCEPT
                  ![r].pc = CASE http[r].pc = "wait_lock" -> "predict"
                              [] http[r].pc = "exec_wait_lock" -> "exec_predict"
                              [] OTHER -> "loop_predict",
                  ![r].work = "inference"]
    /\ UNCHANGED <<wsVars, lastCall, prompts, dbNow, lastResp,
                   _scene_analysis_task, client_frames>>

\* _model.predict returns or raises; the with statement releases the lock
\* either way
predict_ends(r, outcome) ==
    /\ http[r].pc \in InPredict
    /\ _lock' = Unlocked
    /\ http' =
           IF http[r].pc = "exec_predict"
           THEN [http EXCEPT ![r].pc = "resume",
                             ![r].status = IF outcome = "ok" THEN 0 ELSE 500]
           ELSE [http EXCEPT ![r].pc = "idle",
                             ![r].status = IF outcome = "ok" THEN 200 ELSE 500]
    /\ UNCHANGED <<wsVars, lastCall, prompts, dbNow, lastResp,
                   _scene_analysis_task, client_frames>>

\* await _async_predict is over: the coroutine goes on on the event loop;
\* detect_json with return_image enters "with _lock" there
handler_resumes(r) ==
    /\ http[r].pc = "resume"
    /\ ~LoopBlocked
    /\ http' =
           IF http[r].status = 500
           THEN [http EXCEPT ![r].pc = "idle"]
           ELSE IF http[r].endpoint = "detect_json" /\ http[r].return_image
           THEN [http EXCEPT ![r].pc = "loop_wait_lock"]
           ELSE [http EXCEPT ![r].pc = "idle", ![r].status = 200]
    /\ UNCHANGED <<wsVars, lastCall, prompts, dbNow, lastResp, _lock,
                   _scene_analysis_task, client_frames>>

InitHttp ==
    /\ \E s \in SettingsSpace :
           ~s.SCENE_ANALYSIS_ENABLED /\ InitService(s, Conns)
    /\ InitDatabase
    /\ lastCall = NoCall

NextHttp ==
    \/ \E r \in Slots, ep \in Endpoints, hdr \in HttpHeaders, ri \in BOOLEAN,
          outcome \in {"ok", "fail"} : http_request(r, ep, hdr, ri, outcome)
    \/ \E r \in Slots : executor_start(r)
    \/ \E r \in Slots : lock_acquire(r)
    \/ \E r \in Slots, outcome \in {"ok", "raise"} : predict_ends(r, outcome)
    \/ \E r \in Slots : handler_resumes(r)

SpecHttp == InitHttp /\ [][NextHttp]_vars

(***************************************************************************)
(* Two sockets streaming at once, with scene analysis on.                  *)
(***************************************************************************)
StreamConns == {"ws1", "ws2"}

StreamSettings ==
    [API_KEY |-> NoKey, SCENE_ANALYSIS_ENABLED |-> TRUE, OPENAI_API_KEY |-> TRUE]

InitStreams ==
    /\ InitService(StreamSettings, StreamConns)
    /\ InitDatabase
    /\ lastCall = NoCall

\* Both clients stream decodable frames, FRAME_SAMPLING_INTERVAL apart, and
\* every description call returns text.
StreamFrame ==
    [kind |-> "object", type |-> "frame", token |-> NoKey, frame |-> "image"]

StreamOther ==
    [kind |-> "object", type |-> "other", token |-> NoKey, frame |-> "-"]

NextStreams ==
    \/ \E c \in DOMAIN pc : websocket_accept(c)
    \/ \E c \in DOMAIN pc, m \in {StreamFrame, StreamOther} :
           websocket_receive(c, m)
    \/ \E c \in DOMAIN pc, t \in Latencies :
           predict_returns(c, t, FRAME_SAMPLING_INTERVAL)
    \/ \E c \in DOMAIN pc : drain_scene_results(c)
    \/ \E c \in DOMAIN pc : drain_send_fails(c)
    \/ worker_poll("ok")
    \/ worker_analyzed("text")

SpecStreams == InitStreams /\ [][NextStreams]_vars

(***************************************************************************)
(* The scene worker with a backlog.  While the worker awaited one slow     *)
(* description call, which in the end returned nothing, a client streamed  *)
(* frames for one batch more than the delivery queue holds, and went.  The *)
(* worker is back at the top of its loop; a second client sends a frame.   *)
(***************************************************************************)
RECURSIVE Streamed(_, _, _)
\* the sampler after n more frames, FRAME_SAMPLING_INTERVAL apart, from time t
Streamed(self, t, n) ==
    IF n = 0 THEN self
    ELSE Streamed(add_frame(self, "image", t + FRAME_SAMPLING_INTERVAL).self,
                  t + FRAME_SAMPLING_INTERVAL, n - 1)

BacklogFrames == COLLAGE_SIZE * (SCENE_QUEUE_MAXSIZE + 1)

BacklogNow == Epoch + BacklogFrames * FRAME_SAMPLING_INTERVAL

InitWorker ==
    /\ settings = StreamSettings
    /\ pc = [c \in Conns |-> "closed"]
    /\ authenticated = [c \in Conns |-> FALSE]
    /\ fps_times = [c \in Conns |-> <<>>]
    /\ sent = NoSend
    /\ _active_connections = {}
    /\ _performance_stats =
           [total_frames |-> BacklogFrames, dropped_frames |-> 0,
            avg_latency |-> Frac(40, 1)]
    /\ _frame_queue = <<>>
    /\ _frame_sampler =
           Streamed(FrameSampler(FRAME_SAMPLING_INTERVAL), Epoch, BacklogFrames)
    /\ _scene_analysis_queue = <<>>
    /\ wpc = "poll"
    /\ wframes = <<>>
    /\ now = BacklogNow
    /\ processed = [sum |-> 40 * BacklogFrames, count |-> BacklogFrames]
    /\ http = [r \in Slots |-> IdleSlot]
    /\ _lock = Unlocked
    /\ _scene_analysis_task = "running"
    /\ client_frames = BacklogFrames + 1
    /\ InitDatabase
    /\ lastCall = NoCall

NextWorker ==
    \/ \E c \in DOMAIN pc : websocket_accept(c)
    \/ \E c \in DOMAIN pc : websocket_receive(c, StreamFrame)
    \/ \E c \in DOMAIN pc : predict_returns(c, 40, FRAME_SAMPLING_INTERVAL)
    \/ \E c \in DOMAIN pc : drain_scene_results(c)
    \/ \E o \in {"ok", "raise"} : worker_poll(o)
    \/ \E o \in {"text", "none", "api_error"} : worker_analyzed(o)
    \/ worker_resumes

SpecWorker == InitWorker /\ [][NextWorker]_vars

(***************************************************************************)
(* The scene worker from startup to shutdown, one client streaming.        *)
(***************************************************************************)
InitShutdown ==
    /\ InitService(StreamSettings, Conns)
    /\ InitDatabase
    /\ lastCall = NoCall

NextShutdown ==
    \/ NextWorker
    \/ shutdown_event
    \/ worker_cancelled

SpecShutdown == InitShutdown /\ [][NextShutdown]_vars

\* The event loop runs every task that is ready: the cancelled worker task
\* is resumed.
FairSpecShutdown == SpecShutdown /\ WF_vars(worker_cancelled)

(***************************************************************************)
(* Startup to shutdown under every configuration.                          *)
(***************************************************************************)
FairSpecLifecycle ==
    Init /\ [][NextShutdown]_vars /\ WF_vars(worker_cancelled)

(***************************************************************************)
(* Result shaping and the detect endpoints called directly.  Coordinates,  *)
(* thresholds and sizes are exact fractions; a request field that may be   *)
(* left out is a record with a "set" flag.                                 *)
(***************************************************************************)
DEFAULT_IMGSZ == 640

\* DEFAULT_CONF = 0.25 and DEFAULT_IOU = 0.45, in hundredths
DEFAULT_CONF == 25

DEFAULT_IOU == 45

Unset == [set |-> FALSE]

Given(v) == [set |-> TRUE, value |-> v]

\* the model's output for one image: res.orig_shape and res.boxes
Shapes == {<<200, 200>>, <<100, 400>>}

CornerBoxes == {<<10, 10, 110, 210>>, <<0, 0, 50, 100>>, <<20, 40, 20, 40>>}

ModelBoxes ==
    {[xyxy |-> b, conf |-> 90, cls |-> 0] : b \in CornerBoxes}

ModelResults ==
    [orig_shape : Shapes,
     boxes : {<<>>} \cup {<<b>> : b \in ModelBoxes}
                \cup {<<b1, b2>> : b1 \in ModelBoxes, b2 \in ModelBoxes}]

\* boxes.xywhn of the model's Boxes: centre and size over the image size
xywhn(b, w, h) ==
    [x |-> Frac(b[1] + b[3], 2 * w), y |-> Frac(b[2] + b[4], 2 * h),
     w |-> Frac(b[3] - b[1], w), h |-> Frac(b[4] - b[2], h)]

\* _result_to_dict
_result_to_dict(res, normalize) ==
    LET h == res.orig_shape[1]
        w == res.orig_shape[2]
        common(b) ==
            [class_id |-> b.cls, class_name |-> b.cls, confidence |-> b.conf]
        det(b) ==
            IF normalize
            THEN ("box_norm_xywh" :> xywhn(b.xyxy, w, h)) @@ common(b)
            ELSE ("box_xyxy" :>
                      [x1 |-> Frac(b.xyxy[1], 1), y1 |-> Frac(b.xyxy[2], 1),
                       x2 |-> Frac(b.xyxy[3], 1), y2 |-> Frac(b.xyxy[4], 1)])
                 @@ ("box_xywh" :>
                      [x |-> Frac(b.xyxy[1], 1), y |-> Frac(b.xyxy[2], 1),
                       w |-> Frac(b.xyxy[3] - b.xyxy[1], 1),
                       h |-> Frac(b.xyxy[4] - b.xyxy[2], 1)])
                 @@ common(b)
    IN  [image |-> [width |-> w, height |-> h],
         detections |-> [i \in 1..Len(res.boxes) |-> det(res.boxes[i])],
         speed_ms |-> "speed"]

\* a / b for two fractions
FracDiv(a, b) == Frac(a.num * b.den, a.den * b.num)

FracAdd(a, b) == Frac(a.num * b.den + b.num * a.den, a.den * b.den)

FracSub(a, b) == Frac(a.num * b.den - b.num * a.den, a.den * b.den)

\* A normalization that replaces the absolute boxes.
normalized_replacing(payload) ==
    LET w == Frac(payload.image.width, 1)
        h == Frac(payload.image.height, 1)
        norm(det) ==
            IF "box_xyxy" \in DOMAIN det
            THEN LET c == det["box_xyxy"]
                 IN  ("box_norm_xywh" :>
                        [x |-> FracDiv(FracDiv(FracAdd(c.x1, c.x2), Frac(2, 1)), w),
                         y |-> FracDiv(FracDiv(FracAdd(c.y1, c.y2), Frac(2, 1)), h),
                         w |-> FracDiv(FracSub(c.x2, c.x1), w),
                         h |-> FracDiv(FracSub(c.y2, c.y1), h)])
                     @@ [f \in DOMAIN det \ {"box_xyxy", "box_xywh"} |-> det[f]]
            ELSE det
    IN  [payload EXCEPT
            !.detections = [i \in 1..Len(@) |-> norm(@[i])]]

\* _result_to_dict_normalized
_result_to_dict_normalized(payload) ==
    LET w == Frac(payload.image.width, 1)
        h == Frac(payload.image.height, 1)
        norm(det) ==
            IF "box_xyxy" \in DOMAIN det
            THEN LET c == det["box_xyxy"]
                 IN  ("box_norm_xywh" :>
                        [x |-> FracDiv(FracDiv(FracAdd(c.x1, c.x2), Frac(2, 1)), w),
                         y |-> FracDiv(FracDiv(FracAdd(c.y1, c.y2), Frac(2, 1)), h),
                         w |-> FracDiv(FracSub(c.x2, c.x1), w),
                         h |-> FracDiv(FracSub(c.y2, c.y1), h)])
                     @@ det
            ELSE det
    IN  [payload EXCEPT
            !.detections = [i \in 1..Len(@) |-> norm(@[i])]]

\* conf, iou, imgsz: the request's value unless it is None
resolved(req) ==
    [conf |-> IF req.conf.set THEN req.conf.value ELSE DEFAULT_CONF,
     iou |-> IF req.iou.set THEN req.iou.value ELSE DEFAULT_IOU,
     imgsz |-> IF req.imgsz.set THEN req.imgsz.value ELSE DEFAULT_IMGSZ]

NotRun == [status |-> 0]

\* detect_json, from the body check to the payload; res is what the model
\* returns for the image.  loads: the loaders called, in order.
detect_json(req, res) ==
    LET has_b64 == req.image_base64 \notin {"absent", "empty"}
        has_url == req.image_url # "absent"
        refused(loads) ==
            [status |-> 400, loads |-> loads, inference |-> FALSE]
    IN  IF ~has_b64 /\ ~has_url THEN refused(<<>>)
        ELSE IF has_b64 /\ req.image_base64 = "undecodable"
        THEN refused(<<"_load_image_from_base64">>)
        ELSE IF ~has_b64 /\ req.image_url = "unreachable"
        THEN refused(<<"_load_image_from_url">>)
        ELSE [status |-> 200,
              loads |-> IF has_b64 THEN <<"_load_image_from_base64">>
                        ELSE <<"_load_image_from_url">>,
              inference |-> TRUE,
              params |-> resolved(req),
              payload |->
                  IF req.normalize
                  THEN _result_to_dict_normalized(_result_to_dict(res, FALSE))
                  ELSE _result_to_dict(res, FALSE)]

\* detect_file, after _require_auth
detect_file(req, res) ==
    IF req.file = "undecodable"
    THEN [status |-> 400, loads |-> <<"Image.open">>, inference |-> FALSE]
    ELSE [status |-> 200, loads |-> <<"Image.open">>, inference |-> TRUE,
          params |-> resolved(req),
          payload |-> _result_to_dict(res, req.normalize)]

Overrides ==
    [conf : {Unset, Given(0), Given(50)},
     iou : {Unset, Given(70)},
     imgsz : {Unset, Given(320)},
     normalize : BOOLEAN]

JsonRequests ==
    {[endpoint |-> "detect_json", image_base64 |-> b, image_url |-> u,
      conf |-> o.conf, iou |-> o.iou, imgsz |-> o.imgsz,
      normalize |-> o.normalize] :
         b \in {"absent", "empty", "image", "undecodable"},
         u \in {"absent", "image", "unreachable"},
         o \in Overrides}

FileRequests ==
    {[endpoint |-> "detect_file", file |-> f,
      conf |-> o.conf, iou |-> o.iou, imgsz |-> o.imgsz,
      normalize |-> o.normalize] :
         f \in {"image", "undecodable"}, o \in Overrides}

InitDetect ==
    /\ InitService(DefaultSettings, Conns)
    /\ InitDatabase
    /\ \E req \in JsonRequests \cup FileRequests, res \in ModelResults :
           lastCall = [op |-> "detect", req |-> req, res |-> res,
                       response |-> NotRun]

call_detect_json ==
    /\ lastCall.op = "detect"
    /\ lastCall.response = NotRun
    /\ lastCall.req.endpoint = "detect_json"
    /\ lastCall' = [lastCall EXCEPT
                       !.response = detect_json(lastCall.req, lastCall.res)]
    /\ UNCHANGED <<wsVars, auxVars, prompts, dbNow, lastResp>>

call_detect_file ==
    /\ lastCall.op = "detect"
    /\ lastCall.response = NotRun
    /\ lastCall.req.endpoint = "detect_file"
    /\ lastCall' = [lastCall EXCEPT
                       !.response = detect_file(lastCall.req, lastCall.res)]
    /\ UNCHANGED <<wsVars, auxVars, prompts, dbNow, lastResp>>

NextDetect == call_detect_json \/ call_detect_file

SpecDetect == InitDetect /\ [][NextDetect]_vars

(***************************************************************************)
(* realtime_token called directly, against every answer of the provider.   *)
(* The long-lived credential and the text of a caught exception are        *)
(* strings of their own, so that a response can be searched for them.      *)
(***************************************************************************)
LongLivedKey == "settings.OPENAI_API_KEY"

\* the text of the exception the provider call raised
ErrorText == "str(e)"

\* requests.post raises, or raise_for_status() does
ProviderFailures ==
    {"timeout", "connection_error", "http_401", "http_429", "http_500"}

\* what the provider call comes to: a credential issued, a 2xx body with no
\* "value" in it, or a failure
ProviderOutcomes ==
    {[kind |-> "issued", value |-> v] : v \in {"ek_1", "ek_2"}}
        \cup {[kind |-> "no_value"]}
        \cup {[kind |-> k] : k \in ProviderFailures}

\* A handler that reports the exception to the caller.
realtime_token_verbose(s, provider) ==
    IF ~s.OPENAI_API_KEY
    THEN [status |-> 500, provider_called |-> FALSE,
          body |-> [detail |-> "OpenAI API key not configured"]]
    ELSE IF provider.kind = "issued"
    THEN [status |-> 200, provider_called |-> TRUE,
          body |-> [status |-> "ok", ephemeral_key |-> provider.value]]
    ELSE IF provider.kind = "no_value"
    THEN [status |-> 500, provider_called |-> TRUE,
          body |-> [detail |-> "Internal Server Error"]]
    ELSE [status |-> 500, provider_called |-> TRUE,
          body |-> [detail |-> ErrorText]]

\* realtime_token.  A 2xx body without "value" raises KeyError, which the
\* handler does not catch: the framework answers 500.
realtime_token(s, provider) ==
    IF ~s.OPENAI_API_KEY
    THEN [status |-> 500, provider_called |-> FALSE,
          body |-> [detail |-> "OpenAI API key not configured"]]
    ELSE IF provider.kind = "issued"
    THEN [status |-> 200, provider_called |-> TRUE,
          body |-> [status |-> "ok", ephemeral_key |-> provider.value]]
    ELSE IF provider.kind = "no_value"
    THEN [status |-> 500, provider_called |-> TRUE,
          body |-> [detail |-> "Internal Server Error"]]
    ELSE [status |-> 500, provider_called |-> TRUE,
          body |-> [detail |-> "Failed to generate token"]]

InitToken ==
    /\ \E s \in SettingsSpace : InitService(s, Conns)
    /\ InitDatabase
    /\ \E o \in ProviderOutcomes :
           lastCall = [op |-> "realtime_token", provider |-> o,
                       response |-> NotRun]

call_realtime_token ==
    /\ lastCall.op = "realtime_token"
    /\ lastCall.response = NotRun
    /\ lastCall' = [lastCall EXCEPT
                       !.response = realtime_token(settings, lastCall.provider)]
    /\ UNCHANGED <<wsVars, auxVars, prompts, dbNow, lastResp>>

NextToken == call_realtime_token

SpecToken == InitToken /\ [][NextToken]_vars

(***************************************************************************)
(* The prompt API under concurrent requests: each request has its own      *)
(* session and suspends between its name check and its commit.             *)
(***************************************************************************)
\* a request slot holding a prompt request
PromptSlot(p, op, id, name, content, rename, recontent, status, raced) ==
    [pc |-> p, endpoint |-> op, id |-> id, name |-> name, content |-> content,
     rename |-> rename, recontent |-> recontent, status |-> status,
     raced |-> raced]

IdlePromptSlot ==
    PromptSlot("idle", "none", 0, None, None, FALSE, FALSE, 0, FALSE)

\* another request's create of the same name is between its check and its
\* commit
races_with(r, name) ==
    \E q \in Slots \ {r} :
        /\ http[q].endpoint = "create_prompt"
        /\ http[q].name = name
        /\ http[q].pc = "checked"

\* create_prompt up to its first suspension after the name check
create_prompt_checks(r, name, content) ==
    /\ http[r].pc = "idle"
    /\ http' =
           [http EXCEPT ![r] =
              IF name_taken(prompts, name)
              THEN PromptSlot("done", "create_prompt", 0, name, content,
                              FALSE, FALSE, 400, FALSE)
              ELSE PromptSlot("checked", "create_prompt", 0, name, content,
                              FALSE, FALSE, 0, FALSE)]
    /\ UNCHANGED <<wsVars, lastCall, prompts, dbNow, lastResp, _lock,
                   _scene_analysis_task, client_frames>>

\* session.commit(): the INSERT or UPDATE meets the UNIQUE index on name
commit_refused(rows, id, name) == unique_violation(rows, id, name)

\* create_prompt from session.add to the response
create_prompt_commits(r) ==
    /\ http[r].pc = "checked"
    /\ http[r].endpoint = "create_prompt"
    /\ LET row == [id |-> NextRowId(prompts), name |-> http[r].name,
                   content |-> http[r].content, created_at |-> dbNow,
                   updated_at |-> dbNow]
           refused == commit_refused(prompts, row.id, row.name)
       IN  /\ refused \/ row.id <= MaxId
           /\ prompts' = IF refused THEN prompts ELSE prompts \cup {row}
           /\ http' =
                  [q \in Slots |->
                     IF q = r
                     THEN [http[r] EXCEPT
                             !.pc = "done",
                             !.id = IF refused THEN 0 ELSE row.id,
                             \* IntegrityError leaves the endpoint unhandled
                             !.status = IF refused THEN 500 ELSE 200,
                             !.raced = @ \/ races_with(r, row.name)]
                     \* remembered for the requests this commit overtakes
                     ELSE IF /\ http[q].endpoint = "create_prompt"
                             /\ http[q].name = row.name
                             /\ http[q].pc = "checked"
                     THEN [http[q] EXCEPT !.raced = TRUE]
                     ELSE http[q]]
    /\ UNCHANGED <<wsVars, lastCall, dbNow, lastResp, _lock,
                   _scene_analysis_task, client_frames>>

\* update_prompt up to its first suspension after the name check
update_prompt_checks(r, prompt_id, name, content) ==
    /\ http[r].pc = "idle"
    /\ LET found == RowsById(prompts, prompt_id)
           prompt == CHOOSE p \in found : TRUE
           rename == name # None /\ name # "" /\ name # prompt.name
           recontent == content # None /\ content # prompt.content
       IN  http' =
               [http EXCEPT ![r] =
                  IF found = {}
                  THEN PromptSlot("done", "update_prompt", prompt_id, name,
                                  content, FALSE, FALSE, 404, FALSE)
                  ELSE IF rename /\ name_taken(prompts, name)
                  THEN PromptSlot("done", "update_prompt", prompt_id, name,
                                  content, FALSE, FALSE, 400, FALSE)
                  ELSE PromptSlot("checked", "update_prompt", prompt_id, name,
                                  content, rename, recontent, 0, FALSE)]
    /\ UNCHANGED <<wsVars, lastCall, prompts, dbNow, lastResp, _lock,
                   _scene_analysis_task, client_frames>>

\* update_prompt from its assignments to the response: the UPDATE carries
\* the columns this session changed
update_prompt_commits(r) ==
    /\ http[r].pc = "checked"
    /\ http[r].endpoint = "update_prompt"
    /\ LET stored == CHOOSE p \in RowsById(prompts, http[r].id) : TRUE
           written ==
               [stored EXCEPT
                  !.name = IF http[r].rename THEN http[r].name ELSE @,
                  !.content = IF http[r].recontent THEN http[r].content ELSE @,
                  !.updated_at = dbNow]
           dirty == http[r].rename \/ http[r].recontent
           refused ==
               http[r].rename /\ commit_refused(prompts, stored.id, written.name)
       IN  /\ prompts' =
                  IF dirty /\ ~refused
                  THEN (prompts \ {stored}) \cup {written}
                  ELSE prompts
           /\ http' =
                  [http EXCEPT
                     ![r].pc = "done",
                     ![r].status = IF refused THEN 500 ELSE 200]
    /\ UNCHANGED <<wsVars, lastCall, dbNow, lastResp, _lock,
                   _scene_analysis_task, client_frames>>

\* the response is sent and the slot takes the next request
prompt_request_ends(r) ==
    /\ http[r].pc = "done"
    /\ http' = [http EXCEPT ![r] = IdlePromptSlot]
    /\ UNCHANGED <<wsVars, lastCall, prompts, dbNow, lastResp, _lock,
                   _scene_analysis_task, client_frames>>

InitConcurrentPrompts ==
    /\ settings = DefaultSettings
    /\ client_frames = MaxFrames
    /\ pc = [c \in Conns |-> "closed"]
    /\ authenticated = [c \in Conns |-> FALSE]
    /\ fps_times = [c \in Conns |-> <<>>]
    /\ sent = NoSend
    /\ _active_connections = {}
    /\ _performance_stats =
           [total_frames |-> 0, dropped_frames |-> 0, avg_latency |-> Frac(0, 1)]
    /\ _frame_queue = <<>>
    /\ _frame_sampler = FrameSampler(FRAME_SAMPLING_INTERVAL)
    /\ _scene_analysis_queue = <<>>
    /\ wpc = IF openai_client(DefaultSettings) THEN "poll" ELSE "off"
    /\ wframes = <<>>
    /\ now = Epoch
    /\ processed = [sum |-> 0, count |-> 0]
    /\ http = [r \in Slots |-> IdlePromptSlot]
    /\ _lock = Unlocked
    /\ _scene_analysis_task =
           IF openai_client(DefaultSettings) THEN "running" ELSE "none"
    /\ InitDatabase
    /\ lastCall = NoCall

NextConcurrentPrompts ==
    \/ \E r \in Slots, name \in Names, content \in Contents :
           create_prompt_checks(r, name, content)
    \/ \E r \in Slots : create_prompt_commits(r)
    \/ \E r \in Slots, id \in Ids, name \in UpdateNames,
          content \in Contents \cup {None} :
           update_prompt_checks(r, id, name, content)
    \/ \E r \in Slots : update_prompt_commits(r)
    \/ \E r \in Slots : prompt_request_ends(r)

SpecConcurrentPrompts == InitConcurrentPrompts /\ [][NextConcurrentPrompts]_vars

(***************************************************************************)
(* Two sockets sending frames, good and bad, with scene analysis not       *)
(* configured: the performance counters.                                   *)
(***************************************************************************)
CounterMessages ==
    {[kind |-> "object", type |-> "frame", token |-> NoKey, frame |-> f] :
        f \in {"absent", "undecodable", "image"}}

InitCounters ==
    /\ InitService(DefaultSettings, StreamConns)
    /\ InitDatabase
    /\ lastCall = NoCall

NextCounters ==
    \/ \E c \in DOMAIN pc : websocket_accept(c)
    \/ \E c \in DOMAIN pc, m \in CounterMessages : websocket_receive(c, m)
    \/ \E c \in DOMAIN pc : predict_raises(c)
    \/ \E c \in DOMAIN pc, t \in Latencies :
           predict_returns(c, t, FRAME_SAMPLING_INTERVAL)
    \/ \E c \in DOMAIN pc : drain_scene_results(c)

SpecCounters == InitCounters /\ [][NextCounters]_vars

(***************************************************************************)
(* The worker pool shared by inference and the description calls of the    *)
(* scene worker.  The slots of SceneCalls stand for the calls the worker   *)
(* may have handed to _executor.                                           *)
(*   pc = "submitted"  run_in_executor was called; no thread has the call  *)
(*   pc = "exec_call"  a thread of _executor is inside                     *)
(*                     chat.completions.create                             *)
(***************************************************************************)
SceneCalls == {"call1", "call2"}

IdleCall == [IdleSlot EXCEPT !.endpoint = "scene_description"]

worker_submits_freely(k) == TRUE

\* description = await analyze_scene_with_openai(...): the worker is
\* suspended until the call it submitted has come back
worker_awaits_call(k) == \A j \in SceneCalls : http[j].pc = "idle"

\* analyze_scene_with_openai up to await run_in_executor(_executor, ...)
scene_call_submit(k) ==
    /\ openai_client(settings)
    /\ _scene_analysis_task = "running"
    /\ ~LoopBlocked
    /\ http[k].pc = "idle"
    /\ worker_awaits_call(k)
    /\ http' = [http EXCEPT ![k].pc = "submitted"]
    /\ UNCHANGED <<wsVars, lastCall, prompts, dbNow, lastResp, _lock,
                   _scene_analysis_task, client_frames>>

\* a thread of _executor takes the description call
scene_call_starts(k) ==
    /\ http[k].pc = "submitted"
    /\ ExecutorRunning < EXECUTOR_WORKERS
    /\ http' = [http EXCEPT ![k].pc = "exec_call", ![k].work = "provider_call"]
    /\ UNCHANGED <<wsVars, lastCall, prompts, dbNow, lastResp, _lock,
                   _scene_analysis_task, client_frames>>

\* the provider answers or the call raises: the thread is free again
scene_call_ends(k) ==
    /\ http[k].pc = "exec_call"
    /\ http' = [http EXCEPT ![k] = IdleCall]
    /\ UNCHANGED <<wsVars, lastCall, prompts, dbNow, lastResp, _lock,
                   _scene_analysis_task, client_frames>>

PoolEndpoints == {"websocket_frame", "detect_json", "detect_file", "health"}

InitPool ==
    /\ settings = StreamSettings
    /\ client_frames = MaxFrames
    /\ pc = [c \in Conns |-> "closed"]
    /\ authenticated = [c \in Conns |-> FALSE]
    /\ fps_times = [c \in Conns |-> <<>>]
    /\ sent = NoSend
    /\ _active_connections = {}
    /\ _performance_stats =
           [total_frames |-> 0, dropped_frames |-> 0, avg_latency |-> Frac(0, 1)]
    /\ _frame_queue = <<>>
    /\ _frame_sampler = FrameSampler(FRAME_SAMPLING_INTERVAL)
    /\ _scene_analysis_queue = <<>>
    /\ wpc = "poll"
    /\ wframes = <<>>
    /\ now = Epoch
    /\ processed = [sum |-> 0, count |-> 0]
    /\ http = [r \in Slots \cup SceneCalls |->
                 IF r \in Slots THEN IdleSlot ELSE IdleCall]
    /\ _lock = Unlocked
    /\ _scene_analysis_task = "running"
    /\ InitDatabase
    /\ lastCall = NoCall

NextPool ==
    \/ \E r \in Slots, ep \in PoolEndpoints, ri \in BOOLEAN,
          outcome \in {"ok", "fail"} :
           http_request(r, ep, NoHeader, ri, outcome)
    \/ \E r \in Slots : executor_start(r)
    \/ \E r \in Slots : lock_acquire(r)
    \/ \E r \in Slots, outcome \in {"ok", "raise"} : predict_ends(r, outcome)
    \/ \E r \in Slots : handler_resumes(r)
    \/ \E k \in SceneCalls : scene_call_submit(k)
    \/ \E k \in SceneCalls : scene_call_starts(k)
    \/ \E k \in SceneCalls : scene_call_ends(k)

SpecPool == InitPool /\ [][NextPool]_vars

\* The pool's work queue is first in, first out, so no submitted task is
\* passed over for ever; a thread waiting for _lock gets it in the end;
\* _model.predict comes back.  Nothing is assumed of a description call.
FairSpecPool ==
    /\ SpecPool
    /\ \A r \in Slots : SF_vars(executor_start(r))
    /\ \A r \in Slots : SF_vars(lock_acquire(r))
    /\ \A r \in Slots : WF_vars(\E outcome \in {"ok", "raise"} : predict_ends(r, outcome))

(***************************************************************************)
(* Two sockets streaming frames with and without data, fast and slow, with *)
(* scene analysis on: load shedding on one connection.                     *)
(***************************************************************************)
SheddingMessages ==
    {[kind |-> "object", type |-> "frame", token |-> NoKey, frame |-> f] :
        f \in {"absent", "undecodable", "image"}}

NextShedding ==
    \/ \E c \in DOMAIN pc : websocket_accept(c)
    \/ \E c \in DOMAIN pc : websocket_disconnect(c)
    \/ \E c \in DOMAIN pc, m \in SheddingMessages : websocket_receive(c, m)
    \/ \E c \in DOMAIN pc, t \in Latencies :
           predict_returns(c, t, FRAME_SAMPLING_INTERVAL)
    \/ \E c \in DOMAIN pc : drain_scene_results(c)
    \/ worker_poll("ok")
    \/ worker_analyzed("text")

SpecShedding == InitStreams /\ [][NextShedding]_vars

(***************************************************************************)
(* GET /stats beside the streaming sockets.                                *)
(***************************************************************************)
\* asyncio.Queue.qsize()
qsize(queue) == Len(queue)

\* get_performance_stats: the body it returns
get_performance_stats ==
    [performance |-> _performance_stats,
     active_connections |-> Cardinality(_active_connections),
     frame_queue_size |-> qsize(_frame_queue),
     scene_analysis |->
         [enabled |-> settings.SCENE_ANALYSIS_ENABLED,
          openai_configured |-> openai_client(settings),
          collected_frames |-> Len(_frame_sampler.collected_frames),
          analysis_queue_size |-> qsize(_scene_analysis_queue),
          task_running |-> _scene_analysis_task = "running"]]

call_get_performance_stats ==
    /\ lastCall' = [op |-> "get_performance_stats", ret |-> get_performance_stats]
    /\ lastCall' # lastCall
    /\ UNCHANGED <<wsVars, auxVars, prompts, dbNow, lastResp>>

NextFrameQueue ==
    \/ NextShedding
    \/ call_get_performance_stats

SpecFrameQueue == InitStreams /\ [][NextFrameQueue]_vars

(***************************************************************************)
(* Properties of the WebSocket protocol.                                   *)
(***************************************************************************)
ProcessingErrors ==
    {ErrorMsg("Processing error: No frame data provided"),
     ErrorMsg("Processing error: Invalid base64 image"),
     ErrorMsg("Processing error: params has no get"),
     ErrorMsg("Processing error: predict")}

\* The step just taken sent exactly the one reply msg to c.
SentOne(c, msg) == sent' = [to |-> c, msgs |-> <<msg>>]

\* After the step the frame is past the gate: inference has started, or the
\* frame was shed, or its own processing failed.
FramePastGate(c) ==
    \/ pc'[c] = "predict"
    \/ /\ sent'.to = c
       /\ Len(sent'.msgs) = 1
       /\ \/ sent'.msgs[1].type = "frame_skipped"
          \/ sent'.msgs[1] \in ProcessingErrors

\* C1: with a token configured, a message of any type other than auth that
\* arrives before a successful auth is answered "Authentication required"
\* and starts no inference and touches no counter, window or sampler; an auth
\* with the configured token is answered auth_success and sets the flag; a
\* frame on an authenticated connection, or on any connection when no token
\* is configured, gets past the gate.
C1_AuthGate ==
    [][\A c \in DOMAIN pc, m \in Messages :
          (m.kind = "object" /\ pc[c] = "recv" /\ websocket_receive(c, m)) =>
              /\ (settings.API_KEY # NoKey /\ ~authenticated[c] /\ m.type # "auth")
                     => /\ SentOne(c, ErrorMsg("Authentication required"))
                        /\ pc'[c] = "recv"
                        /\ ~authenticated'[c]
                        /\ UNCHANGED <<_performance_stats, fps_times,
                                       _frame_sampler, processed>>
              /\ (settings.API_KEY # NoKey /\ ~authenticated[c]
                      /\ m.type = "auth" /\ m.token = settings.API_KEY)
                     => /\ SentOne(c, AuthSuccess)
                        /\ authenticated'[c]
              /\ (m.type = "frame"
                      /\ (authenticated[c] \/ settings.API_KEY = NoKey))
                     => FramePastGate(c)]_vars

\* C1 witness: a configured token, an unauthenticated connection, and the
\* reply "Authentication required" just sent to it.
C1_Witness ==
    /\ settings.API_KEY # NoKey
    /\ sent.to \in DOMAIN pc
    /\ ~authenticated[sent.to]
    /\ sent.msgs = <<ErrorMsg("Authentication required")>>

\* C2: the flag is false in a fresh handler; an auth whose token differs from
\* the configured one is answered auth_error and leaves the flag false with
\* the handler still receiving; and while the connection lives a true flag
\* stays true.
C2_AuthenticatedFlag ==
    [][\A c \in DOMAIN pc :
          /\ websocket_accept(c) => ~authenticated'[c]
          /\ \A m \in Messages :
                 (m.kind = "object" /\ m.type = "auth" /\ ~authenticated[c]
                      /\ settings.API_KEY # NoKey /\ m.token # settings.API_KEY
                      /\ websocket_receive(c, m))
                     => /\ SentOne(c, AuthError)
                        /\ ~authenticated'[c]
                        /\ pc'[c] = "recv"
          /\ (authenticated[c] /\ pc'[c] # "closed") => authenticated'[c]]_vars

\* C2 witness: auth_error was just sent and the connection is open and
\* still unauthenticated.
C2_Witness ==
    /\ sent.to \in DOMAIN pc
    /\ sent.msgs = <<AuthError>>
    /\ pc[sent.to] = "recv"
    /\ ~authenticated[sent.to]

\* C3 (as claimed): every inbound message is answered before the next one is
\* read: the pass that reads it either sends a reply or starts the inference
\* whose completion sends one.
C3_EveryMessageAnswered ==
    [][\A c \in DOMAIN pc :
          /\ \A m \in Messages :
                 websocket_receive(c, m) =>
                     (pc'[c] = "predict" \/ (sent'.to = c /\ sent'.msgs # <<>>))
          /\ (pc[c] = "predict" /\ pc'[c] # "predict")
                 => (sent'.to = c /\ sent'.msgs # <<>>)]_vars

BadInput(m) ==
    \/ m.kind \in {"badjson", "nonobject"}
    \/ m.type = "frame" /\ m.frame \in {"absent", "undecodable", "image_badparams"}

\* C4 (as claimed): bad input is answered (with an error, or frame_skipped
\* when the frame is shed before it is looked at) and leaves the handler
\* receiving; an exception in the inference is answered with an error; the
\* handler ends only by a disconnect.
C4_BadInputKeepsConnection ==
    [][\A c \in DOMAIN pc :
          /\ \A m \in Messages :
                 (websocket_receive(c, m) /\ BadInput(m))
                     => /\ pc'[c] = "recv"
                        /\ sent'.to = c
                        /\ Len(sent'.msgs) = 1
                        /\ sent'.msgs[1].type \in {"error", "frame_skipped"}
          /\ predict_raises(c)
                 => (pc'[c] = "recv" /\ sent'.msgs[1].type = "error")
          /\ (pc[c] # "closed" /\ pc'[c] = "closed")
                 => websocket_disconnect(c)]_vars

\* a frame message that reaches the load-shedding step
ReachesShedding(c, m) ==
    /\ m.kind = "object" /\ m.type = "frame" /\ m.frame # "absent"
    /\ authenticated[c] \/ settings.API_KEY = NoKey

\* the rolling average of the connection's window is over the threshold, or
\* the queue is over 80 % of its maximum
SheddingDue(c) ==
    \/ 5 * Len(_frame_queue) > 4 * MAX_FRAME_QUEUE
    \/ /\ fps_times[c] # <<>>
       /\ SeqSum(fps_times[c]) > FRAME_SKIP_THRESHOLD * Len(fps_times[c])

\* C6: a frame that is shed adds one to total_frames and to dropped_frames,
\* is answered frame_skipped with the reason, the queue depth and the rounded
\* rolling average, and nothing else happens: no inference starts, no decode
\* error is reported, the sampler, the window, the average latency stay.
C6_SkipCountsAndReplies ==
    [][\A c \in DOMAIN pc, m \in Messages :
          (ReachesShedding(c, m) /\ SheddingDue(c) /\ websocket_receive(c, m))
              => /\ _performance_stats'.total_frames =
                        _performance_stats.total_frames + 1
                 /\ _performance_stats'.dropped_frames =
                        _performance_stats.dropped_frames + 1
                 /\ _performance_stats'.avg_latency =
                        _performance_stats.avg_latency
                 /\ SentOne(c, [type |-> "frame_skipped",
                                reason |-> "performance_optimization",
                                queue_size |-> Len(_frame_queue),
                                avg_latency |->
                                    RoundDiv(100 * SeqSum(fps_times[c]),
                                             Len(fps_times[c]))])
                 /\ pc'[c] = "recv"
                 /\ UNCHANGED <<_frame_sampler, fps_times, processed, now,
                                _scene_analysis_queue>>]_vars

\* C6 witness: frame_skipped was just sent and a frame is counted dropped.
C6_Witness ==
    /\ sent.msgs # <<>>
    /\ sent.msgs[1].type = "frame_skipped"
    /\ _performance_stats.dropped_frames > 0
    /\ _performance_stats.total_frames > _performance_stats.dropped_frames

\* C7 (as claimed): avg_latency is the mean latency of the frames that were
\* processed, whatever number of frames was dropped.
C7_AverageOverProcessed ==
    /\ processed.count = 0 => _performance_stats.avg_latency = Frac(0, 1)
    /\ processed.count > 0 =>
           _performance_stats.avg_latency = Frac(processed.sum, processed.count)

(***************************************************************************)
(* Properties of the units called directly.                                *)
(***************************************************************************)
\* C5: the decision is skip iff the queue depth is over 0.8 x the maximum or
\* the latency is over the threshold, both strictly; with the maximum 30 and
\* the threshold 100: depth 25 skips whatever the latency, depth 24 at
\* latency 100 does not, depth 10 skips at 150 and not at 50.
C5_ShouldSkip ==
    (lastCall.op = "_should_skip_frame" /\ lastCall.returned) =>
        LET q == lastCall.queue_size
            a == lastCall.current_latency
        IN  /\ lastCall.ret <=>
                   (5 * q > 4 * MAX_FRAME_QUEUE
                        \/ a.num > FRAME_SKIP_THRESHOLD * a.den)
            /\ q = 25 => lastCall.ret
            /\ (q = 24 /\ a = Frac(100, 1)) => ~lastCall.ret
            /\ (q = 10 /\ a = Frac(150, 1)) => lastCall.ret
            /\ (q = 10 /\ a = Frac(50, 1)) => ~lastCall.ret

\* C5 witness: the call returned "no skip" exactly at both thresholds.
C5_Witness ==
    /\ lastCall.op = "_should_skip_frame"
    /\ lastCall.returned
    /\ lastCall.queue_size = 24
    /\ lastCall.current_latency = Frac(100, 1)
    /\ ~lastCall.ret

\* C8 (as claimed): on a fresh sampler add_frame at t = 0.0 is accepted and
\* sets the last-sample time to 0.0; in general a call is accepted iff
\* t - last-sample >= interval, an accepted call appends the one sample
\* (image, t) and sets last-sample to t, a rejected call changes nothing.
C8_AddFrame ==
    lastCall.op = "add_frame" =>
        LET b == lastCall.before
            t == lastCall.timestamp
        IN  /\ (b = FrameSampler(FRAME_SAMPLING_INTERVAL) /\ t = 0)
                   => (lastCall.ret /\ _frame_sampler.last_sample_time = 0)
            /\ lastCall.ret <=> (t - b.last_sample_time >= b.interval)
            /\ lastCall.ret =>
                   /\ _frame_sampler.collected_frames =
                          Append(b.collected_frames,
                                 [image |-> lastCall.image, timestamp |-> t])
                   /\ _frame_sampler.last_sample_time = t
            /\ ~lastCall.ret => _frame_sampler = b

\* C9: with fewer than N samples buffered the call returns the empty list
\* and leaves the buffer as it was; with N or more it returns the N oldest in
\* capture order and leaves the later ones buffered in their order.
C9_GetFramesForCollage ==
    lastCall.op = "get_frames_for_collage" =>
        LET b == lastCall.before.collected_frames
            a == _frame_sampler.collected_frames
            n == lastCall.count
        IN  /\ _frame_sampler.last_sample_time =
                   lastCall.before.last_sample_time
            /\ Len(b) < n => (lastCall.ret = <<>> /\ a = b)
            /\ Len(b) >= n =>
                   /\ Len(lastCall.ret) = n
                   /\ \A i \in 1..n : lastCall.ret[i] = b[i]
                   /\ Len(a) = Len(b) - n
                   /\ \A i \in 1..Len(a) : a[i] = b[n + i]

\* C9 witness: a batch of two was drained and a later sample stayed behind.
C9_Witness ==
    /\ lastCall.op = "get_frames_for_collage"
    /\ lastCall.count = 2
    /\ Len(lastCall.ret) = 2
    /\ Len(_frame_sampler.collected_frames) >= 1

(***************************************************************************)
(* Properties of the prompt API.                                           *)
(***************************************************************************)
UniqueNames(rows) == \A r1, r2 \in rows : r1.name = r2.name => r1 = r2

\* C10: after every request no two stored prompts share a name; a create with
\* a stored name is answered 400 and changes nothing; an update of a prompt's
\* name to the name of another prompt is answered 400 and changes nothing; an
\* update of a prompt's name to its own name succeeds.
C10_UniqueNames ==
    [][/\ UniqueNames(prompts')
       /\ \A name \in Names, content \in Contents :
              ((\E r \in prompts : r.name = name) /\ create_prompt(name, content))
                  => (lastResp'.status = 400 /\ prompts' = prompts)
       /\ \A id \in Ids, name \in UpdateNames, content \in Contents \cup {None} :
              /\ ((\E r1, r2 \in prompts :
                         r1.id = id /\ r2.id # id /\ r2.name = name)
                      /\ update_prompt(id, name, content))
                     => (lastResp'.status = 400 /\ prompts' = prompts)
              /\ ((\E r \in prompts : r.id = id /\ r.name = name)
                      /\ update_prompt(id, name, content))
                     => lastResp'.status = 200]_vars

\* C10 witness: two prompts are stored and an update was just refused with
\* 400.
C10_Witness ==
    /\ Cardinality(prompts) = 2
    /\ lastResp.op = "update_prompt"
    /\ lastResp.status = 400

\* the stored prompt with this id, as a set of at most one row
Stored(rows, id) == {r \in rows : r.id = id}

\* C11: a successful create returns the name and content it was given and a
\* get of the returned id right after it returns them again; an update with
\* only content keeps the name and one with only a name keeps the content;
\* a successful delete leaves no prompt with that id; get, update and delete
\* of an id no stored prompt has are answered 404 and change nothing.
C11_RoundTrip ==
    [][/\ \A name \in Names, content \in Contents :
              (~(\E r \in prompts : r.name = name)
                   /\ create_prompt(name, content))
                  => /\ lastResp'.status = 200
                     /\ lastResp'.body.name = name
                     /\ lastResp'.body.content = content
                     /\ Stored(prompts', lastResp'.body.id) = {lastResp'.body}
       /\ \A id \in Ids :
              /\ (lastResp.op = "create_prompt" /\ lastResp.status = 200
                      /\ lastResp.body.id = id /\ get_prompt(id))
                     => /\ lastResp'.status = 200
                        /\ lastResp'.body.name = lastResp.body.name
                        /\ lastResp'.body.content = lastResp.body.content
              /\ \A r \in Stored(prompts, id) :
                     /\ \A content \in Contents :
                            update_prompt(id, None, content)
                                => /\ lastResp'.status = 200
                                   /\ lastResp'.body.name = r.name
                                   /\ lastResp'.body.content = content
                                   /\ lastResp'.body \in prompts'
                     /\ \A name \in Names :
                            (update_prompt(id, name, None)
                                 /\ lastResp'.status = 200)
                                => /\ lastResp'.body.name = name
                                   /\ lastResp'.body.content = r.content
                                   /\ lastResp'.body \in prompts'
                     /\ delete_prompt(id)
                            => /\ lastResp'.status = 200
                               /\ prompts' = prompts \ {r}
                               /\ Stored(prompts', id) = {}
              /\ (Stored(prompts, id) = {}
                      /\ (\/ get_prompt(id)
                          \/ delete_prompt(id)
                          \/ \E name \in UpdateNames,
                                content \in Contents \cup {None} :
                                 update_prompt(id, name, content)))
                     => (lastResp'.status = 404 /\ prompts' = prompts)]_vars

\* C11 witness: a get has just returned one of two stored prompts.
C11_Witness ==
    /\ lastResp.op = "get_prompt"
    /\ lastResp.status = 200
    /\ lastResp.body \in prompts
    /\ Cardinality(prompts) = 2

\* C12 (as claimed): created_at is the insert time and no later request
\* changes it; updated_at is the insert time at creation and every successful
\* update of the prompt sets it to the time of that update, whatever the
\* request carries.
C12_Timestamps ==
    [][/\ \A name \in Names, content \in Contents :
              (~(\E r \in prompts : r.name = name)
                   /\ create_prompt(name, content))
                  => /\ lastResp'.body.created_at = dbNow
                     /\ lastResp'.body.updated_at = dbNow
       /\ \A r1 \in prompts, r2 \in prompts' :
              r1.id = r2.id => r2.created_at = r1.created_at
       /\ \A id \in Ids, name \in UpdateNames, content \in Contents \cup {None} :
              (Stored(prompts, id) # {} /\ update_prompt(id, name, content)
                   /\ lastResp'.status = 200)
                  => /\ lastResp'.body.updated_at = dbNow
                     /\ \A r \in Stored(prompts', id) : r.updated_at = dbNow]_vars

\* C13: a run against the empty store adds exactly one prompt, named "Phone
\* Storage Assistant"; a run against a store that holds any prompt changes
\* nothing; a run in which the storage fails changes nothing; and every run
\* returns to its caller.
C13_SeedIdempotent ==
    [][\A outcome \in {"ok", "storage_error"} :
          init_default_prompts(outcome) =>
              /\ lastResp'.status \in {"added", "skipped", "rolled back"}
              /\ (outcome = "ok" /\ prompts = {})
                     => /\ Cardinality(prompts') = 1
                        /\ \A r \in prompts' : r.name = SeedName
              /\ (outcome = "ok" /\ prompts # {}) => prompts' = prompts
              /\ outcome = "storage_error" => prompts' = prompts]_vars

\* C13 witness: a run has just skipped a store that holds the seeded prompt
\* and nothing else.
C13_Witness ==
    /\ lastResp.op = "init_default_prompts"
    /\ lastResp.status = "skipped"
    /\ Cardinality(prompts) = 1
    /\ \A r \in prompts : r.name = SeedName

(***************************************************************************)
(* Properties of the HTTP authorization.                                   *)
(***************************************************************************)
AuthCallReturned == lastCall.op = "_require_auth" /\ lastCall.returned

\* the header is "Bearer " followed by exactly the configured token
ExactBearer(h, key) == h.present /\ h.text = <<"Bearer", " ", key>>

\* the header is "Bearer " followed by the configured token with any number
\* of spaces before and after it
PaddedBearer(h, key) ==
    /\ h.present
    /\ startswith_Bearer(h.text)
    /\ \E i \in 3..Len(h.text) :
           /\ h.text[i] = key
           /\ \A j \in 3..Len(h.text) : j # i => h.text[j] = " "

MalformedHeader(h) ==
    \/ ~h.present
    \/ Len(h.text) < 2
    \/ h.text[1] # "Bearer"
    \/ h.text[2] # " "

\* C14 (as claimed): with a token configured the check passes only for the
\* header "Bearer " followed by exactly the token, answers 401 for a missing
\* or non-Bearer header and 403 for a Bearer header with any other value;
\* with no token configured it passes whatever the header.
C14_RequireAuthExact ==
    AuthCallReturned =>
        LET h == lastCall.authorization
            key == settings.API_KEY
        IN  /\ key = NoKey => lastCall.ret = 200
            /\ key # NoKey =>
                   /\ lastCall.ret = 200 <=> ExactBearer(h, key)
                   /\ lastCall.ret = 401 <=> MalformedHeader(h)
                   /\ lastCall.ret = 403 <=>
                          (~MalformedHeader(h) /\ ~ExactBearer(h, key))

\* C14 (amended): as claimed, except that the value after "Bearer " is
\* compared with the token after the spaces around it are removed.
C14_RequireAuthStripped ==
    AuthCallReturned =>
        LET h == lastCall.authorization
            key == settings.API_KEY
        IN  /\ key = NoKey => lastCall.ret = 200
            /\ key # NoKey =>
                   /\ lastCall.ret = 200 <=> PaddedBearer(h, key)
                   /\ lastCall.ret = 401 <=> MalformedHeader(h)
                   /\ lastCall.ret = 403 <=>
                          (~MalformedHeader(h) /\ ~PaddedBearer(h, key))

\* C14 witness: a header with a second space before the token has passed.
C14_Witness ==
    /\ AuthCallReturned
    /\ settings.API_KEY = "secret"
    /\ lastCall.authorization =
           [present |-> TRUE, text |-> <<"Bearer", " ", " ", "secret">>]
    /\ lastCall.ret = 200

\* root and health apart, the endpoints of the API layer
ProtectedEndpoints ==
    {"detect_json", "detect_file", "detect_image", "get_performance_stats",
     "realtime_token"}

\* C15 (as claimed): with a token configured, a request to an endpoint other
\* than root and health that carries no valid bearer token is answered 401
\* or 403 and the handler has done no work and returned no data for it.
C15_EndpointsRequireAuth ==
    \A r \in Slots :
        (settings.API_KEY # NoKey
             /\ http[r].endpoint \in ProtectedEndpoints
             /\ ~PaddedBearer(http[r].authorization, settings.API_KEY))
            => /\ http[r].pc = "idle"
               /\ http[r].status \in {401, 403}
               /\ http[r].work = "none"

\* C16: at most one caller is inside _model.predict at any instant; whoever
\* is inside it holds the lock, and the lock is held by nobody else: it is
\* free again as soon as the call has returned or raised.
C16_OneInference ==
    /\ Cardinality({r \in Slots : http[r].pc \in InPredict}) <= 1
    /\ \A r \in Slots : http[r].pc \in InPredict <=> _lock = r

\* C16 witness: one caller is inside the model and another waits for the
\* lock.
C16_Witness ==
    \E r1, r2 \in Slots :
        /\ http[r1].pc \in InPredict
        /\ _lock = r1
        /\ http[r2].pc \in WaitLock

(***************************************************************************)
(* Properties of concurrent streams and of scene-description delivery.     *)
(***************************************************************************)
\* C17: a connection's next message is read only when the handling of its
\* previous one is over (replies sent, nothing of it in flight), and while
\* one connection awaits inference another connection that is waiting for a
\* message can have its message handled.
C17_OneAtATime ==
    /\ [][\A c \in DOMAIN pc :
             pc[c] \in {"predict", "drain"} =>
                 \A m \in {StreamFrame, StreamOther} : ~websocket_receive(c, m)]_vars
    /\ [](\A c1, c2 \in DOMAIN pc :
             (pc[c1] = "predict" /\ pc[c2] = "recv") =>
                 ENABLED websocket_receive(c2, StreamOther))

\* C17 witness: while ws1 awaits inference, ws2's frame has been read,
\* inferred and answered.
C17_Witness ==
    /\ pc["ws1"] = "predict"
    /\ pc["ws2"] = "drain"
    /\ sent.to = "ws2"
    /\ Len(sent.msgs) = 1
    /\ sent.msgs[1].type = "detection"

\* the scene descriptions among the messages of the step's send
SceneSends ==
    {i \in 1..Len(sent'.msgs) : sent'.msgs[i].type = "scene_description"}

\* the queue loses its oldest result or gains a newest one, or is unchanged
QueueStepIsFifo ==
    _scene_analysis_queue' # _scene_analysis_queue =>
        \/ /\ _scene_analysis_queue # <<>>
           /\ _scene_analysis_queue' = Tail(_scene_analysis_queue)
        \/ /\ Len(_scene_analysis_queue') = Len(_scene_analysis_queue) + 1
           /\ SubSeq(_scene_analysis_queue', 1, Len(_scene_analysis_queue))
                  = _scene_analysis_queue

\* a scene description sent in the step is the one the step dequeues
SceneSendIsDequeue ==
    SceneSends # {} =>
        /\ _scene_analysis_queue # <<>>
        /\ sent'.msgs = <<Head(_scene_analysis_queue)>>
        /\ _scene_analysis_queue' = Tail(_scene_analysis_queue)
        /\ sent'.to \in DOMAIN pc
        /\ pc[sent'.to] = "drain"

\* C19: the delivery queue changes only by losing its oldest result or by
\* gaining a newest one; a scene description is sent only in the step that
\* takes it from the head of the queue, alone, to the one connection whose
\* frame cycle is draining; results waiting in the queue are all different.
C19_FifoAtMostOnce ==
    /\ [][QueueStepIsFifo /\ SceneSendIsDequeue]_vars
    /\ [](\A i, j \in 1..Len(_scene_analysis_queue) :
             _scene_analysis_queue[i] = _scene_analysis_queue[j] => i = j)

\* C19 witness: two results waited while both connections were draining;
\* ws2 has just been sent the older one and the newer one still waits.
C19_Witness ==
    /\ pc["ws1"] = "drain"
    /\ pc["ws2"] = "drain"
    /\ sent.to = "ws2"
    /\ Len(sent.msgs) = 1
    /\ sent.msgs[1].type = "scene_description"
    /\ Len(_scene_analysis_queue) = 1
    /\ sent.msgs[1].img[1] < _scene_analysis_queue[1].img[1]

\* C18: the delivery queue never holds more than SCENE_QUEUE_MAXSIZE
\* results; a description produced while it is full leaves the queue as it
\* is and the worker back at the top of its loop; the queue grows only in
\* the step in which the description call returned text.
C18_BoundedLossy ==
    /\ [](Len(_scene_analysis_queue) <= SCENE_QUEUE_MAXSIZE)
    /\ [][(Len(_scene_analysis_queue) = SCENE_QUEUE_MAXSIZE
               /\ worker_analyzed("text"))
            => (UNCHANGED _scene_analysis_queue /\ wpc' = "poll")]_vars
    /\ [][Len(_scene_analysis_queue') > Len(_scene_analysis_queue)
            => worker_analyzed("text")]_vars

\* C18 witness: the queue is full of the results of the first batches, the
\* worker holds one batch more and awaits its description.
C18_Witness ==
    /\ Len(_scene_analysis_queue) = SCENE_QUEUE_MAXSIZE
    /\ wpc = "analyze"
    /\ Len(wframes) = COLLAGE_SIZE

\* an exception reaches the loop's except clause: collage build or encoding
LoopCatches == wpc = "poll" /\ worker_poll("raise")

\* the description call fails: analyze_scene_with_openai returns None
CallFails == wpc = "analyze" /\ worker_analyzed("api_error")

\* the enqueue fails: put_nowait raises QueueFull
EnqueueFails ==
    /\ wpc = "analyze"
    /\ Len(_scene_analysis_queue) = SCENE_QUEUE_MAXSIZE
    /\ worker_analyzed("text")

\* the task ends only by a cancellation that was requested, and once one is
\* requested the worker does nothing else before it ends
EndsOnlyCancelled ==
    /\ (wpc' = "done" /\ wpc # "done") => _scene_analysis_task = "cancelling"
    /\ _scene_analysis_task = "cancelling" =>
           \/ wpc' = "done"
           \/ /\ UNCHANGED <<wpc, wframes>>
              /\ Len(_scene_analysis_queue') <= Len(_scene_analysis_queue)

\* a pause ends at the top of the loop, or by cancellation
PauseThenLoop == (wpc = "pause" /\ wpc' # "pause") => wpc' \in {"poll", "done"}

\* C20 (as claimed): an error in collage build or encoding, in the
\* description call or in the enqueue is followed by the 1-second pause and
\* then the loop; the worker ends only by cancellation, and a cancellation
\* requested at shutdown stops it.
C20_EveryErrorPauses ==
    /\ [][(LoopCatches \/ CallFails \/ EnqueueFails) => wpc' = "pause"]_vars
    /\ [][PauseThenLoop /\ EndsOnlyCancelled]_vars
    /\ (_scene_analysis_task = "cancelling") ~> (wpc = "done")

\* C20 (amended): an error in collage build or encoding is followed by the
\* 1-second pause and then the loop; a failed description call and a full
\* queue are absorbed where they happen and the loop goes round with no
\* pause; the worker ends only by cancellation, and a cancellation requested
\* at shutdown stops it before it does anything else.
C20_WorkerResilience ==
    /\ [][LoopCatches => wpc' = "pause"]_vars
    /\ [][(CallFails \/ EnqueueFails) => wpc' = "poll"]_vars
    /\ [][PauseThenLoop /\ EndsOnlyCancelled]_vars
    /\ (_scene_analysis_task = "cancelling") ~> (wpc = "done")

\* C20 witness: shutdown has asked for cancellation while the worker sleeps
\* in its except clause.
C20_Witness ==
    /\ _scene_analysis_task = "cancelling"
    /\ wpc = "pause"

(***************************************************************************)
(* Properties of the scene-analysis lifecycle.                             *)
(***************************************************************************)
\* the flag is set and a provider credential is configured
SceneAnalysisActive ==
    settings.SCENE_ANALYSIS_ENABLED /\ settings.OPENAI_API_KEY

\* C21: a worker task exists iff the flag is set and a credential is
\* configured, and only then does the sampler ever receive a frame; with no
\* task, shutdown cancels nothing; a task that shutdown has cancelled is
\* awaited: the await is over only when the worker has ended, and it does
\* get over.
C21_Lifecycle ==
    /\ [](_scene_analysis_task # "none" <=> SceneAnalysisActive)
    /\ [](wpc = "off" <=> _scene_analysis_task = "none")
    /\ [](~SceneAnalysisActive =>
             _frame_sampler = FrameSampler(FRAME_SAMPLING_INTERVAL))
    /\ [](_scene_analysis_task = "cancelled" => wpc = "done")
    /\ [][_scene_analysis_task = "none" =>
             (_scene_analysis_task' = "none" /\ wpc' = "off")]_vars
    /\ (_scene_analysis_task = "cancelling") ~>
           (_scene_analysis_task = "cancelled")

\* C21 witness: frames were sampled, shutdown cancelled the worker and its
\* await has returned.
C21_Witness ==
    /\ SceneAnalysisActive
    /\ _frame_sampler.collected_frames # <<>>
    /\ _scene_analysis_task = "cancelled"
    /\ wpc = "done"

(***************************************************************************)
(* Properties of the detect endpoints and of result shaping.               *)
(***************************************************************************)
DetectReturned(ep) ==
    /\ lastCall.op = "detect"
    /\ lastCall.req.endpoint = ep
    /\ lastCall.response # NotRun

\* how many of image_base64 and image_url the body carries
ImageFieldsGiven(req) ==
    (IF req.image_base64 # "absent" THEN 1 ELSE 0)
        + (IF req.image_url # "absent" THEN 1 ELSE 0)

\* C22 (as claimed): POST /detect accepts a body only if it carries exactly
\* one of image_base64 and image_url; a body with neither is answered 400
\* with no loader called and no inference; an image that does not decode or
\* cannot be fetched is answered 400 with no inference; conf, iou and imgsz
\* take the configured defaults when left out.
C22_DetectValidation ==
    DetectReturned("detect_json") =>
        LET req == lastCall.req
            rsp == lastCall.response
        IN  /\ rsp.status = 200 => ImageFieldsGiven(req) = 1
            /\ (req.image_base64 \in {"absent", "empty"}
                    /\ req.image_url = "absent")
                   => (rsp.status = 400 /\ rsp.loads = <<>> /\ ~rsp.inference)
            /\ (req.image_base64 = "undecodable"
                    \/ (req.image_base64 \in {"absent", "empty"}
                           /\ req.image_url = "unreachable"))
                   => (rsp.status = 400 /\ ~rsp.inference)
            /\ rsp.status = 200 =>
                   /\ ~req.conf.set => rsp.params.conf = DEFAULT_CONF
                   /\ ~req.iou.set => rsp.params.iou = DEFAULT_IOU
                   /\ ~req.imgsz.set => rsp.params.imgsz = DEFAULT_IMGSZ

\* the normalized box the claim derives from corner box b on a w x h image
NormOf(b, w, h) ==
    [x |-> Frac(b[1] + b[3], 2 * w), y |-> Frac(b[2] + b[4], 2 * h),
     w |-> Frac(b[3] - b[1], w), h |-> Frac(b[4] - b[2], h)]

\* C23: post-hoc normalization gives every detection that has a corner box
\* the normalized box x=(x1+x2)/(2W), y=(y1+y2)/(2H), w=(x2-x1)/W,
\* h=(y2-y1)/H, and changes nothing else: the other fields of each
\* detection, the image dimensions and the rest of the payload stay.
C23_PostHocNormalization ==
    (DetectReturned("detect_json") /\ lastCall.response.status = 200
         /\ lastCall.req.normalize)
        => LET res == lastCall.res
               before == _result_to_dict(res, FALSE)
               after == lastCall.response.payload
           IN  /\ after.image = before.image
               /\ after.speed_ms = before.speed_ms
               /\ DOMAIN after = DOMAIN before
               /\ Len(after.detections) = Len(before.detections)
               /\ \A i \in 1..Len(before.detections) :
                      LET d == before.detections[i]
                          e == after.detections[i]
                      IN  /\ DOMAIN e = DOMAIN d \cup {"box_norm_xywh"}
                          /\ \A f \in DOMAIN d : e[f] = d[f]
                          /\ e["box_norm_xywh"] =
                                 NormOf(res.boxes[i].xyxy, res.orig_shape[2],
                                        res.orig_shape[1])

\* C23 witness: corner box (10,10,110,210) on a 200 x 200 image has been
\* normalized to x=0.3, y=0.55, w=0.5, h=1.0.
C23_Witness ==
    /\ DetectReturned("detect_json")
    /\ lastCall.response.status = 200
    /\ lastCall.req.normalize
    /\ lastCall.res.orig_shape = <<200, 200>>
    /\ Len(lastCall.res.boxes) = 1
    /\ lastCall.res.boxes[1].xyxy = <<10, 10, 110, 210>>
    /\ lastCall.response.payload.detections[1]["box_norm_xywh"] =
           [x |-> [num |-> 3, den |-> 10], y |-> [num |-> 11, den |-> 20],
            w |-> [num |-> 1, den |-> 2], h |-> [num |-> 1, den |-> 1]]

\* a detect endpoint has answered 200 with a payload
PayloadReturned ==
    /\ lastCall.op = "detect"
    /\ lastCall.response # NotRun
    /\ lastCall.response.status = 200

\* C24 (as claimed): every detection returned carries the absolute corner
\* and size boxes and no normalized box when normalize is false, and the
\* normalized box alone when normalize is true.
C24_OneRepresentation ==
    PayloadReturned =>
        \A i \in 1..Len(lastCall.response.payload.detections) :
            LET boxes == DOMAIN lastCall.response.payload.detections[i]
                             \cap {"box_xyxy", "box_xywh", "box_norm_xywh"}
            IN  IF lastCall.req.normalize
                THEN boxes = {"box_norm_xywh"}
                ELSE boxes = {"box_xyxy", "box_xywh"}

\* C30 (as claimed): in the unnormalized representation box_xywh is the
\* centre and size of box_xyxy.
C30_SizeFormIsCentre ==
    (PayloadReturned /\ ~lastCall.req.normalize) =>
        \A i \in 1..Len(lastCall.response.payload.detections) :
            LET b == lastCall.res.boxes[i].xyxy
            IN  lastCall.response.payload.detections[i]["box_xywh"] =
                    [x |-> Frac(b[1] + b[3], 2), y |-> Frac(b[2] + b[4], 2),
                     w |-> Frac(b[3] - b[1], 1), h |-> Frac(b[4] - b[2], 1)]

(***************************************************************************)
(* Properties of the realtime token broker.                                *)
(***************************************************************************)
TokenReturned ==
    lastCall.op = "realtime_token" /\ lastCall.response # NotRun

\* C25: with no provider credential the broker answers 500 and does not
\* call the provider; with one, a credential the provider issues is
\* returned with status ok, and a failed or refused provider call is
\* answered 500 with a fixed message; no response holds the long-lived
\* credential or the text of the error.
C25_TokenBroker ==
    TokenReturned =>
        LET o == lastCall.provider
            rsp == lastCall.response
        IN  /\ ~settings.OPENAI_API_KEY =>
                   (rsp.status = 500 /\ ~rsp.provider_called)
            /\ (settings.OPENAI_API_KEY /\ o.kind = "issued") =>
                   /\ rsp.status = 200
                   /\ rsp.body = [status |-> "ok", ephemeral_key |-> o.value]
            /\ (settings.OPENAI_API_KEY /\ o.kind \in ProviderFailures) =>
                   /\ rsp.status = 500
                   /\ rsp.body = [detail |-> "Failed to generate token"]
            /\ \A f \in DOMAIN rsp.body :
                   rsp.body[f] \notin {LongLivedKey, ErrorText}

\* C25 witness: the provider refused the call and the broker has answered
\* 500 with its fixed message.
C25_Witness ==
    /\ TokenReturned
    /\ settings.OPENAI_API_KEY
    /\ lastCall.provider.kind = "http_401"
    /\ lastCall.response.status = 500
    /\ lastCall.response.provider_called

(***************************************************************************)
(* Properties of the event loop and the worker pool.                       *)
(***************************************************************************)
\* C26 (as claimed): the event-loop thread never waits for the inference
\* lock and never runs the model itself; every inference on behalf of an
\* async handler is in a thread of the pool.
C26_LoopNeverBlocks ==
    \A r \in Slots :
        http[r].endpoint \in {"detect_json", "realtime_token", "websocket_frame"}
            => http[r].pc \notin {"loop_wait_lock", "loop_predict"}
(***************************************************************************)
(* Properties of the prompt API under concurrent requests.                 *)
(***************************************************************************)
\* no request is answered with the unhandled storage failure
LosersGetConflict ==
    \A r \in Slots : http[r].pc = "done" => http[r].status # 500

\* of two creates of one name that overlapped, exactly one was stored
OneCreateWins ==
    \A r, q \in Slots :
        (/\ r # q
         /\ http[r].pc = "done" /\ http[q].pc = "done"
         /\ http[r].endpoint = "create_prompt"
         /\ http[q].endpoint = "create_prompt"
         /\ http[r].name = http[q].name
         /\ http[r].raced /\ http[q].raced)
            => (http[r].status = 200) # (http[q].status = 200)

\* the store holds no two prompts of one name
NamesUnique ==
    \A x, y \in prompts : x.name = y.name => x = y

\* C27 (as claimed): under any interleaving of concurrent creates and
\* updates, a request that loses because its name is taken is answered 400
\* and never with a storage failure, exactly one of two concurrent creates of
\* a name succeeds, and the store never holds two prompts of one name.
C27_ConflictUnderConcurrency ==
    /\ LosersGetConflict
    /\ OneCreateWins
    /\ NamesUnique

(***************************************************************************)
(* Properties of the performance counters.                                 *)
(***************************************************************************)
\* the step just taken answered a frame with one message of this type
Answered(type) ==
    /\ Len(sent'.msgs) = 1
    /\ sent'.msgs[1].type = type

CountersInRange ==
    /\ 0 <= _performance_stats.dropped_frames
    /\ _performance_stats.dropped_frames <= _performance_stats.total_frames

CountersGrow ==
    /\ _performance_stats'.total_frames >= _performance_stats.total_frames
    /\ _performance_stats'.dropped_frames >= _performance_stats.dropped_frames

ProcessedFrameCounts ==
    Answered("detection") =>
        LET n == _performance_stats.total_frames + 1
            old_avg == _performance_stats.avg_latency
            L100 == sent'.msgs[1].latency_ms
        IN  /\ _performance_stats'.total_frames = n
            /\ _performance_stats'.dropped_frames =
                   _performance_stats.dropped_frames
            /\ _performance_stats'.avg_latency =
                   Frac(100 * old_avg.num * (n - 1) + L100 * old_avg.den,
                        100 * old_avg.den * n)

DroppedFrameCounts ==
    Answered("frame_skipped") =>
        /\ _performance_stats'.total_frames =
               _performance_stats.total_frames + 1
        /\ _performance_stats'.dropped_frames =
               _performance_stats.dropped_frames + 1
        /\ _performance_stats'.avg_latency = _performance_stats.avg_latency

FailedFrameCountsNothing ==
    Answered("error") => UNCHANGED _performance_stats

CounterStep ==
    /\ CountersGrow
    /\ ProcessedFrameCounts
    /\ DroppedFrameCounts
    /\ FailedFrameCountsNothing

\* C29: a processed frame of latency L takes total_frames to n and
\* avg_latency to (old_avg x (n-1) + L) / n, n counting dropped frames too; a
\* dropped frame adds one to total_frames and to dropped_frames and leaves
\* avg_latency; a frame that ends in an error changes no counter; always
\* 0 <= dropped_frames <= total_frames, and no counter ever goes down.
C29_CounterRule ==
    /\ []CountersInRange
    /\ [][CounterStep]_vars

\* C29 witness: frames were dropped and processed, the last one was answered
\* with an error, and the average is not the mean of the processed frames.
C29_Witness ==
    /\ _performance_stats.dropped_frames > 0
    /\ _performance_stats.total_frames > _performance_stats.dropped_frames + 1
    /\ sent.msgs # <<>>
    /\ sent.msgs[1].type = "error"
    /\ _performance_stats.avg_latency # Frac(processed.sum, processed.count)

(***************************************************************************)
(* Properties of the pool under description calls.                         *)
(***************************************************************************)
DescriptionThreads ==
    Cardinality({k \in SceneCalls : http[k].pc = "exec_call"})

AtMostOneDescriptionThread == DescriptionThreads <= 1

InferenceGetsThreadAndLock ==
    \A r \in Slots :
        (http[r].pc = "submitted") ~> (http[r].pc = "exec_predict")

\* C28: at most one of the two threads of the pool is inside a description
\* call at any instant, and an inference task handed to the pool gets a
\* thread and the inference lock in the end, whether or not a description
\* call ever comes back.
C28_NoStarvation ==
    /\ []AtMostOneDescriptionThread
    /\ InferenceGetsThreadAndLock

\* C28 witness: a description call holds one thread, an inference holds the
\* other and the lock, and a second inference task waits for a thread.
C28_Witness ==
    /\ DescriptionThreads = 1
    /\ \E r, q \in Slots :
           /\ http[r].pc = "exec_predict"
           /\ http[q].pc = "submitted"

(***************************************************************************)
(* Properties of load shedding on one connection.                          *)
(***************************************************************************)
\* the handler waits for its next message and its window's average is over
\* the threshold
Saturated(c) ==
    /\ pc[c] = "recv"
    /\ fps_times[c] # <<>>
    /\ SeqSum(fps_times[c]) > FRAME_SKIP_THRESHOLD * Len(fps_times[c])

\* the step leaves the window as it is, starts no inference and sends the
\* connection neither a detection nor a scene description
WindowFrozen(c) ==
    /\ pc'[c] \in {"recv", "closed"}
    /\ pc'[c] = "recv" => fps_times'[c] = fps_times[c]
    /\ sent'.to = c =>
           \A i \in DOMAIN sent'.msgs :
               sent'.msgs[i].type \notin {"detection", "scene_description"}

Skipped(c) ==
    SentOne(c, FrameSkipped(Len(_frame_queue), RollingAvg(fps_times[c])))

EveryFrameSkipped(c) ==
    \A m \in SheddingMessages : websocket_receive(c, m) => Skipped(c)

FrameWithDataSkipped(c) ==
    \A m \in SheddingMessages :
        websocket_receive(c, m) =>
            IF m.frame = "absent"
            THEN SentOne(c, ErrorMsg("Processing error: No frame data provided"))
            ELSE Skipped(c)

\* C31 (as claimed): once the average of a connection's window is over the
\* threshold the window never changes, every later frame message on the
\* connection is answered frame_skipped, no inference runs for it and it
\* gets no detection and no scene description.
C31_SheddingAbsorbs ==
    [][\A c \in DOMAIN pc :
          Saturated(c) => (WindowFrozen(c) /\ EveryFrameSkipped(c))]_vars

\* C31 (amended): once the average of a connection's window is over the
\* threshold the window never changes, every later frame message that carries
\* frame data is answered frame_skipped and one without frame data is
\* answered "No frame data provided", no inference runs for the connection
\* and it gets no detection and no scene description.
C31_SheddingAbsorbsFramesWithData ==
    [][\A c \in DOMAIN pc :
          Saturated(c) => (WindowFrozen(c) /\ FrameWithDataSkipped(c))]_vars

\* C31 witness: a connection whose window is over the threshold has just had
\* a frame skipped while a scene description waits in the queue.
C31_Witness ==
    \E c \in DOMAIN pc :
        /\ Saturated(c)
        /\ sent.to = c
        /\ sent.msgs # <<>>
        /\ sent.msgs[1].type = "frame_skipped"
        /\ _scene_analysis_queue # <<>>

(***************************************************************************)
(* Properties of the streaming frame queue.                                *)
(***************************************************************************)
FrameQueueEmpty == qsize(_frame_queue) = 0

StatsReportEmptyQueue ==
    lastCall.op = "get_performance_stats" => lastCall.ret.frame_queue_size = 0

\* what the step sent reports a queue depth of 0
RepliesReportEmptyQueue ==
    \A i \in DOMAIN sent'.msgs :
        sent'.msgs[i].type \in {"frame_skipped", "detection"}
            => sent'.msgs[i].queue_size = 0

\* a frame shed in this step was shed for its connection's rolling latency
SkippedForLatencyOnly ==
    \A c \in DOMAIN pc :
        (/\ pc[c] = "recv"
         /\ sent'.to = c
         /\ sent'.msgs # <<>>
         /\ sent'.msgs[1].type = "frame_skipped"
         /\ \E m \in SheddingMessages : websocket_receive(c, m))
            => /\ fps_times[c] # <<>>
               /\ SeqSum(fps_times[c]) > FRAME_SKIP_THRESHOLD * Len(fps_times[c])
               /\ ~(5 * qsize(_frame_queue) > 4 * MAX_FRAME_QUEUE)

FrameQueueStep ==
    /\ _frame_queue' = _frame_queue
    /\ RepliesReportEmptyQueue
    /\ SkippedForLatencyOnly

\* C32: nothing enqueues into the streaming frame queue: its depth, as the
\* load-shedding step reads it and as /stats, frame_skipped and detection
\* report it, is 0 in every reachable state, and a frame is skipped only for
\* the rolling latency, never for the queue depth.
C32_FrameQueueNeverWritten ==
    /\ [](FrameQueueEmpty /\ StatsReportEmptyQueue)
    /\ [][FrameQueueStep]_vars

\* C32 witness: /stats has answered after a frame was skipped and a frame
\* was processed.
C32_Witness ==
    /\ lastCall.op = "get_performance_stats"
    /\ lastCall.ret.performance.dropped_frames > 0
    /\ lastCall.ret.performance.total_frames
           > lastCall.ret.performance.dropped_frames
    /\ lastCall.ret.active_connections > 0

(***************************************************************************)
(* Properties of the batches the scene worker drains.                      *)
(***************************************************************************)
\* capture times of a sequence of frame samples
Stamps(frames) == {frames[i].timestamp : i \in DOMAIN frames}

\* capture times behind the results waiting for delivery
QueuedStamps ==
    UNION {{_scene_analysis_queue[k].img[i] :
               i \in DOMAIN _scene_analysis_queue[k].img} :
           k \in DOMAIN _scene_analysis_queue}

\* the samples that may still lead to a scene description
LiveStamps ==
    Stamps(_frame_sampler.collected_frames) \cup Stamps(wframes)
        \cup QueuedStamps

Ascending(frames) ==
    \A i, j \in DOMAIN frames : i < j => frames[i].timestamp < frames[j].timestamp

\* the sampler, the batch in hand and the batches behind the queued results
\* share no sample, and lie in capture order: queued, in hand, sampler
BatchesDisjointInOrder ==
    /\ Ascending(_frame_sampler.collected_frames)
    /\ Ascending(wframes)
    /\ wframes # <<>> => Len(wframes) = COLLAGE_SIZE
    /\ \A a \in Stamps(wframes), b \in Stamps(_frame_sampler.collected_frames) :
           a < b
    /\ \A a \in QueuedStamps,
         b \in Stamps(wframes) \cup Stamps(_frame_sampler.collected_frames) :
           a < b
    /\ \A k, l \in DOMAIN _scene_analysis_queue :
           k < l =>
               \A i \in DOMAIN _scene_analysis_queue[k].img,
                  j \in DOMAIN _scene_analysis_queue[l].img :
                   _scene_analysis_queue[k].img[i] < _scene_analysis_queue[l].img[j]
    /\ \A k \in DOMAIN _scene_analysis_queue :
           /\ Len(_scene_analysis_queue[k].img) = COLLAGE_SIZE
           /\ \A i, j \in DOMAIN _scene_analysis_queue[k].img :
                  i < j => _scene_analysis_queue[k].img[i]
                               < _scene_analysis_queue[k].img[j]
    /\ \A a \in LiveStamps : a <= _frame_sampler.last_sample_time

\* a batch leaves the sampler as its oldest COLLAGE_SIZE samples
BatchIsOldest ==
    Len(_frame_sampler'.collected_frames) < Len(_frame_sampler.collected_frames)
        => /\ _frame_sampler'.collected_frames =
                  SubSeq(_frame_sampler.collected_frames, COLLAGE_SIZE + 1,
                         Len(_frame_sampler.collected_frames))
           /\ wframes' \in {<<>>, SubSeq(_frame_sampler.collected_frames, 1,
                                         COLLAGE_SIZE)}

\* a sample that is live after the step was live before it, or is new
NothingComesBack ==
    /\ _frame_sampler'.last_sample_time >= _frame_sampler.last_sample_time
    /\ \A t \in LiveStamps' :
           t \in LiveStamps \/ t > _frame_sampler.last_sample_time
    /\ Stamps(_frame_sampler'.collected_frames) \cap Stamps(wframes) = {}

\* the batch in hand is given up with no result queued: it is gone
LostBatchIsGone ==
    (/\ wframes # <<>>
     /\ wframes' = <<>>
     /\ _scene_analysis_queue' = _scene_analysis_queue)
        => /\ _frame_sampler' = _frame_sampler
           /\ Stamps(wframes) \cap LiveStamps' = {}

\* a scene description sent in the step is a queued one
SentIsQueued ==
    \A i \in DOMAIN sent'.msgs :
        sent'.msgs[i].type = "scene_description" =>
            \A j \in DOMAIN sent'.msgs[i].img :
                sent'.msgs[i].img[j] \in QueuedStamps

BatchStep ==
    /\ BatchIsOldest
    /\ NothingComesBack
    /\ LostBatchIsGone
    /\ SentIsQueued

\* C33: every sample is taken by at most one batch: the batches are disjoint
\* and consecutive in capture order, and a batch whose description call
\* returns nothing or raises, or whose result meets a full queue, is not put
\* back into the sampler and never leads to a scene description.
C33_BatchesConsumedOnce ==
    /\ []BatchesDisjointInOrder
    /\ [][BatchStep]_vars

\* C33 witness: the queue is full, the worker is back at the top of its loop
\* with no batch in hand, and between the newest queued batch and the
\* sampler's oldest sample a whole batch is missing.
C33_Witness ==
    /\ Len(_scene_analysis_queue) = SCENE_QUEUE_MAXSIZE
    /\ wpc = "poll"
    /\ wframes = <<>>
    /\ _frame_sampler.collected_frames # <<>>
    /\ _frame_sampler.collected_frames[1].timestamp
           >= _scene_analysis_queue[SCENE_QUEUE_MAXSIZE].img[COLLAGE_SIZE]
                  + (COLLAGE_SIZE + 1) * FRAME_SAMPLING_INTERVAL

====
